---- MODULE Spec2Model ----
(***************************************************************************)
(* Session stream reducer and broadcast relay of claude-agent-ui           *)
(* (src/src/server/index.ts, src/src/server/sse.ts).                       *)
(*                                                                         *)
(* JavaScript runs one synchronous segment at a time; every action below   *)
(* is one such segment: the code between two suspension points (await,     *)
(* for-await, yield) of a handler, with every call it makes included.      *)
(*                                                                         *)
(* Strings are sequences of one-character strings.  A runtime handle       *)
(* (Query object) is the number of the run that created it; 0 is null.     *)
(***************************************************************************)
EXTENDS Integers, Sequences, FiniteSets, TLC

\* ------------------------------------------------------------------ bounds
MaxRequests == 2      \* requests of the clients: send, stop, stream open and close
MaxEvents == 3        \* steps of the runtime's event streams: frames, raises and ends
MaxViewers == 2       \* viewer channels that may connect
MaxTextLen == 2       \* length of the text of an enqueue request
MaxClock == 2         \* milliseconds Date.now() may advance
MaxToolEvents == 4    \* runtime frames consumed when they are tool starts
MaxPathLen == 5       \* characters of the path parameter of a file request
MaxFileRequests == 1  \* file requests of a behaviour; the routes keep no state

RunIds == 1..(MaxRequests + 1)
Viewers == 1..MaxViewers
Chars == {" ", "a"}
DeltaTexts == {<<"x">>, <<"y">>}
ThinkingTexts == {<<"t">>}
StreamIndexes == {0}
BlockIndexes == {0, 1}
ToolIds == {"T", "S", "U"}
Null == 0
LogCap == 2000

RECURSIVE SeqsUpTo(_, _)
SeqsUpTo(S, n) ==
  IF n = 0 THEN {<<>>}
  ELSE LET shorter == SeqsUpTo(S, n - 1)
       IN shorter \cup {Append(t, c) : t \in {u \in shorter : Len(u) = n - 1}, c \in S}

TextInputs == SeqsUpTo(Chars, MaxTextLen)

\* ------------------------------------------------------------------ state
VARIABLES
  agentDir,                  \* index.ts:385
  hasInitialPrompt,          \* index.ts:386
  sessionState,              \* index.ts:387
  querySession,              \* index.ts:388, Null or the run whose handle it is
  isProcessing,              \* index.ts:389
  shouldAbortSession,        \* index.ts:390
  sessionTerminationPromise, \* index.ts:391, Null or the run that made the promise
  isInterruptingResponse,    \* index.ts:392
  isStreamingMessage,        \* index.ts:393
  messages,                  \* index.ts:394
  messageSequence,           \* index.ts:398
  messageQueue,              \* index.ts:408
  logLines,                  \* index.ts:402
  streamIndexToToolId,       \* index.ts:395, "" where the map has no entry
  toolResultIndexToId,       \* index.ts:396, "" where the map has no entry
  childToolToParent,         \* index.ts:397, "" where the map has no entry
  clients,                   \* sse.ts:10
  chan,                      \* what each viewer's stream has carried (sse.ts:72)
  bcast,                     \* every broadcast made, in order (sse.ts:59)
  pendingStarts,             \* startStreamingSession calls suspended at index.ts:1117
  runCounter,                \* handles created so far by query() (index.ts:1138)
  liveRuns,                  \* runs whose for-await loop (index.ts:1162) has not ended
  terminated,                \* runs whose termination promise is resolved (index.ts:1500)
  inflight,                  \* per run: messages the runtime pulled and has not answered
  yielded,                   \* per run: promise of the item the feed is suspended on (index.ts:1532)
  resolved,                  \* enqueue promises resolved so far (index.ts:1538)
  interruptTarget,           \* handle the pending interrupt() was called on (index.ts:1106)
  interruptsAsked,           \* per run: interrupt() requests the runtime received
  failing,                   \* viewer channels whose stream rejects writes (controller.enqueue throws)
  fed,                       \* every queue item a feed has yielded, in order (index.ts:1532)
  now,                       \* the value Date.now() returns, in milliseconds
  connected,                 \* history: viewers that have opened /chat/stream
  snapshot,                  \* history: per viewer, the session as it was when it connected
  openDeltas,                \* history: text deltas consumed since the newest message was created
  lastCall,                  \* history: the handler segment that ran last and how it ended
  nReq, nEv                  \* counters bounding the exploration

vars == <<agentDir, hasInitialPrompt, sessionState, querySession, isProcessing,
          shouldAbortSession, sessionTerminationPromise, isInterruptingResponse,
          isStreamingMessage, messages, messageSequence, messageQueue, logLines,
          streamIndexToToolId, toolResultIndexToId, childToolToParent,
          clients, chan, bcast, pendingStarts, runCounter, liveRuns, terminated,
          inflight, yielded, resolved, interruptTarget, interruptsAsked, now,
          fed, failing, connected, snapshot, openDeltas, lastCall, nReq, nEv>>

\* The mutable fields of the server as one record, so that the code's
\* sequential statements compose as functions from record to record.
Cur ==
  [agentDir |-> agentDir, hasInitialPrompt |-> hasInitialPrompt,
   sessionState |-> sessionState, querySession |-> querySession,
   isProcessing |-> isProcessing, shouldAbortSession |-> shouldAbortSession,
   sessionTerminationPromise |-> sessionTerminationPromise,
   isInterruptingResponse |-> isInterruptingResponse,
   isStreamingMessage |-> isStreamingMessage, messages |-> messages,
   messageSequence |-> messageSequence, messageQueue |-> messageQueue,
   logLines |-> logLines, streamIndexToToolId |-> streamIndexToToolId,
   toolResultIndexToId |-> toolResultIndexToId,
   childToolToParent |-> childToolToParent, clients |-> clients, chan |-> chan, bcast |-> bcast,
   pendingStarts |-> pendingStarts, runCounter |-> runCounter,
   liveRuns |-> liveRuns, terminated |-> terminated, inflight |-> inflight,
   yielded |-> yielded, resolved |-> resolved,
   interruptTarget |-> interruptTarget, interruptsAsked |-> interruptsAsked,
   now |-> now, fed |-> fed, failing |-> failing]

Assign(s) ==
  /\ agentDir' = s.agentDir
  /\ hasInitialPrompt' = s.hasInitialPrompt
  /\ sessionState' = s.sessionState
  /\ querySession' = s.querySession
  /\ isProcessing' = s.isProcessing
  /\ shouldAbortSession' = s.shouldAbortSession
  /\ sessionTerminationPromise' = s.sessionTerminationPromise
  /\ isInterruptingResponse' = s.isInterruptingResponse
  /\ isStreamingMessage' = s.isStreamingMessage
  /\ messages' = s.messages
  /\ messageSequence' = s.messageSequence
  /\ messageQueue' = s.messageQueue
  /\ logLines' = s.logLines
  /\ streamIndexToToolId' = s.streamIndexToToolId
  /\ toolResultIndexToId' = s.toolResultIndexToId
  /\ childToolToParent' = s.childToolToParent
  /\ clients' = s.clients
  /\ chan' = s.chan
  /\ bcast' = s.bcast
  /\ pendingStarts' = s.pendingStarts
  /\ runCounter' = s.runCounter
  /\ liveRuns' = s.liveRuns
  /\ terminated' = s.terminated
  /\ inflight' = s.inflight
  /\ yielded' = s.yielded
  /\ resolved' = s.resolved
  /\ interruptTarget' = s.interruptTarget
  /\ interruptsAsked' = s.interruptsAsked
  /\ now' = s.now
  /\ fed' = s.fed
  /\ failing' = s.failing

\* ------------------------------------------------------------ text helpers
RECURSIVE trimStart(_)
trimStart(t) ==
  IF t = <<>> THEN <<>>
  ELSE IF Head(t) = " " THEN trimStart(Tail(t)) ELSE t

RECURSIVE trimEnd(_)
trimEnd(t) ==
  IF t = <<>> THEN <<>>
  ELSE IF t[Len(t)] = " " THEN trimEnd(SubSeq(t, 1, Len(t) - 1)) ELSE t

\* a trim that removes nothing
trimNothing(t) == t

\* String.prototype.trim
trim(t) == trimEnd(trimStart(t))

\* ------------------------------------------------------- transcript values
NoBlocks == <<>>

\* MessageWire.content: a string, or an array of content blocks
StringContent(t) == [isString |-> TRUE, text |-> t, blocks |-> NoBlocks]
ArrayContent(bs) == [isString |-> FALSE, text |-> <<>>, blocks |-> bs]

\* A JSON value is an object, told by the set of its keys; a JSON text is a
\* sequence of tokens.  An optional field is <<>> when it is undefined and
\* <<v>> when it holds v.
JsonObject(keys) == [keys |-> keys]
JsonKeys == {"k"}

\* JSON.stringify(value, null, 2), white space left out
JsonStringify(value) ==
  <<"{">> \o (IF "k" \in value.keys THEN <<"k">> ELSE <<>>) \o <<"}">>

\* JSON.parse(text): <<value>>, or <<>> when it throws
JsonParse(text) ==
  LET fits == {keys \in SUBSET JsonKeys : JsonStringify(JsonObject(keys)) = text}
  IN IF fits = {} THEN <<>> ELSE <<JsonObject(CHOOSE keys \in fits : TRUE)>>

\* parsePartialJson(text): the value of a text that is valid JSON, and no
\* value for any other text
parsePartialJson(text) == JsonParse(text)

\* SubagentToolCall
SubagentToolCall(id, name, input, streamIndex, inputJson) ==
  [id |-> id, name |-> name, input |-> input, streamIndex |-> streamIndex,
   inputJson |-> inputJson, parsedInput |-> <<>>, result |-> <<>>,
   isLoading |-> <<TRUE>>, isError |-> <<>>]

\* ToolUseState; subagentCalls is <<>> while the field is undefined
ToolUseState(id, name, input, streamIndex) ==
  [id |-> id, name |-> name, input |-> input, streamIndex |-> streamIndex,
   inputJson |-> <<>>, parsedInput |-> <<>>, result |-> <<>>,
   isLoading |-> <<>>, isError |-> <<>>, subagentCalls |-> <<>>]

NoTool == ToolUseState("", "", JsonObject({}), -1)

\* ContentBlock; `text` holds block.text of a text block and block.thinking of
\* a thinking block; thinkingStartedAt and thinkingDurationMs are <<>> while
\* undefined
TextBlock(t) ==
  [type |-> "text", text |-> t, thinkingStreamIndex |-> -1, isComplete |-> FALSE,
   thinkingStartedAt |-> <<>>, thinkingDurationMs |-> <<>>, tool |-> NoTool]
ThinkingBlock(index, startedAt) ==
  [type |-> "thinking", text |-> <<>>, thinkingStreamIndex |-> index,
   isComplete |-> FALSE, thinkingStartedAt |-> <<startedAt>>,
   thinkingDurationMs |-> <<>>, tool |-> NoTool]
ToolUseBlock(tool) ==
  [type |-> "tool_use", text |-> <<>>, thinkingStreamIndex |-> -1,
   isComplete |-> FALSE, thinkingStartedAt |-> <<>>, thinkingDurationMs |-> <<>>,
   tool |-> tool]

MessageWire(id, role, content) == [id |-> id, role |-> role, content |-> content]
NoMessage == MessageWire(-1, "none", StringContent(<<>>))

\* ------------------------------------------------------- runtime frames
\* One message of the runtime's event stream (SDKMessage), reduced to the
\* fields the reducer reads.
Sdk(type, index, text) ==
  [type |-> type, index |-> index, text |-> text, parent_tool_use_id |-> "",
   id |-> "", name |-> "", input |-> JsonObject({})]
NoSdk == Sdk("none", -1, <<>>)

\* a frame about a tool-use block: its parent tool id ("" when it has none)
\* and, on a block start, the id, name and input of the tool
SdkTool(type, index, parent, id, name) ==
  [Sdk(type, index, <<>>) EXCEPT !.parent_tool_use_id = parent, !.id = id,
                                 !.name = name]

\* text deltas without a parent tool id, and the terminal result frame
TextFrames ==
  {Sdk("text_delta", -1, t) : t \in DeltaTexts} \cup {Sdk("result", -1, <<>>)}

\* the frames of thinking blocks
ThinkingFrames ==
  {Sdk("thinking_start", i, <<>>) : i \in StreamIndexes}
    \cup {Sdk("thinking_delta", i, t) : i \in StreamIndexes, t \in ThinkingTexts}
    \cup {Sdk("content_block_stop", i, <<>>) : i \in StreamIndexes}

SdkMessages == TextFrames \cup ThinkingFrames

\* the frames of a tool T opened at stream index 0 and of a tool S that a
\* subagent of T opens at stream index 1, and of their blocks stopping
ToolFrames ==
  {SdkTool("tool_use_start", 0, "", "T", "Task"),
   SdkTool("tool_use_start", 1, "T", "S", "Read"),
   SdkTool("content_block_stop", 0, "", "", ""),
   SdkTool("content_block_stop", 1, "T", "", "")}

\* an input_json_delta frame: the stream index, the parent tool id ("" when it
\* has none) and the fragment delta.partial_json
SdkToolInput(index, parent, fragment) ==
  [Sdk("input_json_delta", index, fragment) EXCEPT !.parent_tool_use_id = parent]

\* the frames of two streams that use stream index 0, the top-level stream
\* with the tools T and U and the stream of T's subagent with the tool S:
\* block starts, input fragments and block stops
InputFrames ==
  {SdkTool("tool_use_start", 0, "", "T", "Task"),
   SdkTool("tool_use_start", 0, "", "U", "Read"),
   SdkTool("tool_use_start", 0, "T", "S", "Read"),
   SdkToolInput(0, "", <<"{">>),
   SdkToolInput(0, "", <<"}">>),
   SdkToolInput(0, "T", <<"{", "}">>),
   SdkTool("content_block_stop", 0, "", "", ""),
   SdkTool("content_block_stop", 0, "T", "", "")}

\* a frame that carries a tool result: the id of the tool it answers, the
\* parent tool id ("" when it has none) and the content
SdkToolResult(type, index, parent, toolUseId, content) ==
  [Sdk(type, index, content) EXCEPT !.parent_tool_use_id = parent, !.id = toolUseId]

\* the frames of the results of a tool T and of a tool S run by a subagent of
\* T: the start of T's block and of S's block, the start of a result block,
\* a result text delta, and a user frame that completes a result
ResultFrames ==
  {SdkTool("tool_use_start", 0, "", "T", "Task"),
   SdkTool("tool_use_start", 1, "T", "S", "Read"),
   SdkToolResult("tool_result_start", 1, "T", "S", <<"r">>),
   SdkToolResult("text_delta", -1, "T", "", <<"x">>),
   SdkToolResult("user_tool_result", -1, "T", "S", <<"r">>)}

\* the starts of two tool blocks T and U, and of a tool S that a subagent
\* frame declares under T or under U
ParentFrames ==
  {SdkTool("tool_use_start", 0, "", "T", "Task"),
   SdkTool("tool_use_start", 1, "", "U", "Task"),
   SdkTool("tool_use_start", 0, "T", "S", "Read"),
   SdkTool("tool_use_start", 0, "U", "S", "Read")}

\* the frames of the result of a tool T: the start of its block, the start of
\* its result block, a result text delta, and an assistant frame of T's
\* subagent whose content is one text block
TopResultFrames ==
  {SdkTool("tool_use_start", 0, "", "T", "Task"),
   SdkToolResult("tool_result_start", 1, "", "T", <<"r">>),
   SdkToolResult("text_delta", -1, "T", "", <<"x">>),
   SdkToolResult("assistant", -1, "T", "", <<"r", " ">>)}

\* What the event stream can throw: an Error with a message, or another value
Thrown == {[isError |-> TRUE, message |-> <<"E">>],
           [isError |-> FALSE, message |-> <<>>]}

\* ------------------------------------------------------------ the hub
\* One frame of the push channel: the event name and its payload.
Frame(event) ==
  [event |-> event, sessionState |-> "", text |-> <<>>, message |-> NoMessage,
   index |-> -1, hasInitialPrompt |-> FALSE, agentDir |-> "", lines |-> <<>>,
   sdk |-> NoSdk, toolId |-> "", parentToolUseId |-> "", tool |-> NoTool,
   isError |-> <<>>]

\* a send that leaves a channel whose write failed in the hub
sendKeepsChannel(s, v, frame) ==
  IF v \in s.failing THEN s ELSE [s EXCEPT !.chan[v] = Append(@, frame)]

\* client.send: the payload is formatted at once and written to the stream;
\* when the write throws, the channel removes itself from the hub
send(s, v, frame) ==
  IF v \in s.failing
  THEN [s EXCEPT !.clients = @ \ {v}]
  ELSE [s EXCEPT !.chan[v] = Append(@, frame)]

\* for (const client of clients) client.send(event, data)
RECURSIVE sendEach(_, _, _)
sendEach(s, pending, frame) ==
  IF pending = {} THEN s
  ELSE LET v == CHOOSE x \in pending : TRUE
       IN sendEach(send(s, v, frame), pending \ {v}, frame)

broadcast(s, frame) ==
  sendEach([s EXCEPT !.bcast = Append(@, frame)], s.clients, frame)

\* ------------------------------------------------------- session reducer
\* setSessionState that never leaves the error state
setSessionStateStickyError(s, nextState) ==
  IF s.sessionState = nextState \/ s.sessionState = "error" THEN s
  ELSE broadcast([s EXCEPT !.sessionState = nextState],
                 [Frame("chat:status") EXCEPT !.sessionState = nextState])

\* setSessionState that announces the state whether or not it changed
setSessionStateAlways(s, nextState) ==
  broadcast([s EXCEPT !.sessionState = nextState],
            [Frame("chat:status") EXCEPT !.sessionState = nextState])

setSessionState(s, nextState) ==
  IF s.sessionState = nextState THEN s
  ELSE broadcast([s EXCEPT !.sessionState = nextState],
                 [Frame("chat:status") EXCEPT !.sessionState = nextState])

Last(q) == q[Len(q)]

\* ensureAssistantMessage that reads the counter and does not advance it
ensureAssistantMessageSameId(s) ==
  IF /\ Len(s.messages) > 0
     /\ Last(s.messages).role = "assistant"
     /\ s.isStreamingMessage
  THEN s
  ELSE [s EXCEPT
          !.messages = Append(@, MessageWire(s.messageSequence, "assistant",
                                             StringContent(<<>>))),
          !.isStreamingMessage = TRUE]

\* ensureAssistantMessage that puts the new message in the place of the last
ensureAssistantMessageInPlace(s) ==
  IF /\ Len(s.messages) > 0
     /\ Last(s.messages).role = "assistant"
     /\ s.isStreamingMessage
  THEN s
  ELSE LET assistant == MessageWire(s.messageSequence, "assistant", StringContent(<<>>))
       IN [s EXCEPT
             !.messages = IF @ = <<>> THEN <<assistant>>
                          ELSE [@ EXCEPT ![Len(@)] = assistant],
             !.messageSequence = @ + 1,
             !.isStreamingMessage = TRUE]

ensureAssistantMessage(s) ==
  IF /\ Len(s.messages) > 0
     /\ Last(s.messages).role = "assistant"
     /\ s.isStreamingMessage
  THEN s
  ELSE [s EXCEPT
          !.messages = Append(@, MessageWire(s.messageSequence, "assistant",
                                             StringContent(<<>>))),
          !.messageSequence = @ + 1,
          !.isStreamingMessage = TRUE]

\* the content of the last message turned into an array of blocks
ensureContentArray(s) ==
  LET m == Last(s.messages)
  IN IF m.content.isString
     THEN [s EXCEPT !.messages[Len(s.messages)].content =
             ArrayContent(IF m.content.text # <<>>
                          THEN <<TextBlock(m.content.text)>>
                          ELSE <<>>)]
     ELSE s

\* appendTextChunk that extends a trailing text block and never opens one
appendTextChunkNoNewBlock(s0, chunk) ==
  LET s == ensureAssistantMessage(s0)
      n == Len(s.messages)
      c == s.messages[n].content
  IN IF c.isString
     THEN [s EXCEPT !.messages[n].content.text = @ \o chunk]
     ELSE IF Len(c.blocks) > 0 /\ Last(c.blocks).type = "text"
          THEN [s EXCEPT !.messages[n].content.blocks[Len(c.blocks)].text = @ \o chunk]
          ELSE s

appendTextChunk(s0, chunk) ==
  LET s == ensureAssistantMessage(s0)
      n == Len(s.messages)
      c == s.messages[n].content
  IN IF c.isString
     THEN [s EXCEPT !.messages[n].content.text = @ \o chunk]
     ELSE IF Len(c.blocks) > 0 /\ Last(c.blocks).type = "text"
          THEN [s EXCEPT !.messages[n].content.blocks[Len(c.blocks)].text = @ \o chunk]
          ELSE [s EXCEPT !.messages[n].content.blocks = Append(@, TextBlock(chunk))]

\* index of the first block of the last message that is an open thinking
\* block of this stream index, 0 when there is none (Array.prototype.find)
\* the search that takes complete thinking blocks too
RECURSIVE findFromAnyState(_, _, _)
findFromAnyState(bs, i, index) ==
  IF i > Len(bs) THEN 0
  ELSE IF bs[i].type = "thinking" /\ bs[i].thinkingStreamIndex = index
       THEN i
       ELSE findFromAnyState(bs, i + 1, index)

findAnyThinking(bs, index) == findFromAnyState(bs, 1, index)

RECURSIVE findFrom(_, _, _)
findFrom(bs, i, index) ==
  IF i > Len(bs) THEN 0
  ELSE IF /\ bs[i].type = "thinking"
          /\ bs[i].thinkingStreamIndex = index
          /\ ~bs[i].isComplete
       THEN i
       ELSE findFrom(bs, i + 1, index)

findOpenThinking(bs, index) == findFrom(bs, 1, index)

handleThinkingStart(s0, index) ==
  LET s == ensureContentArray(ensureAssistantMessage(s0))
  IN [s EXCEPT !.messages[Len(s.messages)].content.blocks =
        Append(@, ThinkingBlock(index, s.now))]

handleThinkingChunk(s0, index, delta) ==
  LET s == ensureContentArray(ensureAssistantMessage(s0))
      n == Len(s.messages)
      k == findOpenThinking(s.messages[n].content.blocks, index)
  IN IF k # 0
     THEN [s EXCEPT !.messages[n].content.blocks[k].text = @ \o delta]
     ELSE s

handleToolUseStart(s0, tool) ==
  LET s == ensureContentArray(ensureAssistantMessage(s0))
  IN [s EXCEPT !.messages[Len(s.messages)].content.blocks =
        Append(@, ToolUseBlock(tool))]

\* Array.prototype.find over blocks: the index of the first tool_use block
\* with this tool id, 0 when there is none
RECURSIVE findToolById(_, _, _)
findToolById(bs, i, toolId) ==
  IF i > Len(bs) THEN 0
  ELSE IF bs[i].type = "tool_use" /\ bs[i].tool.id = toolId THEN i
       ELSE findToolById(bs, i + 1, toolId)

\* the index of the first tool_use block with this stream index, 0 when none
RECURSIVE findToolByIndex(_, _, _)
findToolByIndex(bs, i, index) ==
  IF i > Len(bs) THEN 0
  ELSE IF bs[i].type = "tool_use" /\ bs[i].tool.streamIndex = index THEN i
       ELSE findToolByIndex(bs, i + 1, index)

\* the index of the first call with this id in subagentCalls, 0 when none
RECURSIVE findCall(_, _, _)
findCall(calls, i, toolId) ==
  IF i > Len(calls) THEN 0
  ELSE IF calls[i].id = toolId THEN i ELSE findCall(calls, i + 1, toolId)

NoPlace == [message |-> 0, block |-> 0]

\* findToolBlockById: the place of the tool block with this id in the most
\* recent assistant message that holds one, NoPlace when there is none
RECURSIVE findToolBlockFrom(_, _, _)
findToolBlockFrom(msgs, i, toolUseId) ==
  IF i < 1 THEN NoPlace
  ELSE IF msgs[i].role # "assistant" \/ msgs[i].content.isString
       THEN findToolBlockFrom(msgs, i - 1, toolUseId)
       ELSE LET k == findToolById(msgs[i].content.blocks, 1, toolUseId)
            IN IF k # 0 THEN [message |-> i, block |-> k]
               ELSE findToolBlockFrom(msgs, i - 1, toolUseId)

findToolBlockById(s, toolUseId) ==
  findToolBlockFrom(s.messages, Len(s.messages), toolUseId)

handleSubagentToolUseStart(s, parentToolUseId, tool) ==
  LET at == findToolBlockById(s, parentToolUseId)
  IN IF at = NoPlace THEN s
     ELSE LET calls == s.messages[at.message].content.blocks[at.block].tool.subagentCalls
              c == findCall(calls, 1, tool.id)
              s1 == [s EXCEPT !.childToolToParent[tool.id] = parentToolUseId]
          IN IF c # 0
             THEN [s1 EXCEPT
                     !.messages[at.message].content.blocks[at.block].tool
                        .subagentCalls[c] =
                       [@ EXCEPT !.name = tool.name, !.input = tool.input,
                                 !.streamIndex = tool.streamIndex]]
             ELSE [s1 EXCEPT
                     !.messages[at.message].content.blocks[at.block].tool
                        .subagentCalls =
                       Append(@, SubagentToolCall(tool.id, tool.name, tool.input,
                                                  tool.streamIndex,
                                                  JsonStringify(tool.input)))]

ensureSubagentToolPlaceholder(s, parentToolUseId, toolUseId) ==
  LET at == findToolBlockById(s, parentToolUseId)
  IN IF at = NoPlace THEN s
     ELSE LET calls == s.messages[at.message].content.blocks[at.block].tool.subagentCalls
          IN IF findCall(calls, 1, toolUseId) # 0 THEN s
             ELSE [s EXCEPT
                     !.childToolToParent[toolUseId] = parentToolUseId,
                     !.messages[at.message].content.blocks[at.block].tool
                        .subagentCalls =
                       Append(@, SubagentToolCall(toolUseId, "Tool", JsonObject({}),
                                                  -1, JsonStringify(JsonObject({}))))]

\* the strict parse of inputJson, or else the partial parse when it yields a
\* value, or else what parsedInput held
reconcileInput(call) ==
  IF JsonParse(call.inputJson) # <<>> THEN JsonParse(call.inputJson)
  ELSE IF parsePartialJson(call.inputJson) # <<>>
       THEN parsePartialJson(call.inputJson)
       ELSE call.parsedInput

finalizeSubagentToolInput(s, parentToolUseId, toolId) ==
  LET at == findToolBlockById(s, parentToolUseId)
  IN IF at = NoPlace THEN s
     ELSE LET calls == s.messages[at.message].content.blocks[at.block].tool.subagentCalls
              c == findCall(calls, 1, toolId)
          IN IF c = 0 \/ calls[c].inputJson = <<>> THEN s
             ELSE [s EXCEPT
                     !.messages[at.message].content.blocks[at.block].tool
                        .subagentCalls[c].parsedInput = reconcileInput(calls[c])]

\* the place of subagent call toolUseId under the parent the session has
\* learned for it: [message, block, call], call = 0 when it is not found
findSubagentCall(s, toolUseId) ==
  LET parentToolUseId == s.childToolToParent[toolUseId]
      at == IF parentToolUseId = "" THEN NoPlace
            ELSE findToolBlockById(s, parentToolUseId)
  IN IF at = NoPlace THEN [message |-> 0, block |-> 0, call |-> 0]
     ELSE [message |-> at.message, block |-> at.block,
           call |-> findCall(s.messages[at.message].content.blocks[at.block]
                               .tool.subagentCalls, 1, toolUseId)]

\* finalizeSubagentToolResult: whether the call was found (then it is no
\* longer loading)
subagentToolResultFound(s, toolUseId) == findSubagentCall(s, toolUseId).call # 0

finalizeSubagentToolResult(s, toolUseId) ==
  LET at == findSubagentCall(s, toolUseId)
  IN IF at.call = 0 THEN s
     ELSE [s EXCEPT !.messages[at.message].content.blocks[at.block].tool
                       .subagentCalls[at.call].isLoading = <<FALSE>>]

\* getSubagentToolResult(toolUseId) ?? ''
getSubagentToolResult(s, toolUseId) ==
  LET at == findSubagentCall(s, toolUseId)
      result == IF at.call = 0 THEN <<>>
                ELSE s.messages[at.message].content.blocks[at.block].tool
                       .subagentCalls[at.call].result
  IN IF result = <<>> THEN <<>> ELSE result[1]

\* block.thinkingStartedAt ? Date.now() - block.thinkingStartedAt : undefined
thinkingDuration(b, clock) ==
  IF b.thinkingStartedAt # <<>> /\ b.thinkingStartedAt[1] # 0
  THEN <<clock - b.thinkingStartedAt[1]>>
  ELSE <<>>

\* setToolResult(toolUseId, content, isError); isError is <<>> when undefined
setToolResult(s, toolUseId, content, isError) ==
  LET at == findToolBlockById(s, toolUseId)
  IN IF at = NoPlace THEN s
     ELSE [s EXCEPT
             !.messages[at.message].content.blocks[at.block].tool.result = <<content>>,
             !.messages[at.message].content.blocks[at.block].tool.isError =
                IF isError # <<>> THEN isError ELSE @]

\* getToolResult(toolUseId): <<>> when undefined
getToolResult(s, toolUseId) ==
  LET at == findToolBlockById(s, toolUseId)
  IN IF at = NoPlace THEN <<>>
     ELSE s.messages[at.message].content.blocks[at.block].tool.result

\* `${result ?? ''}${delta}`
appendResult(result, delta) ==
  <<(IF result = <<>> THEN <<>> ELSE result[1]) \o delta>>

handleToolResultStart(s, toolUseId, content, isError) ==
  LET at == findSubagentCall(s, toolUseId)
  IN IF at.call # 0
     THEN [s EXCEPT
             !.messages[at.message].content.blocks[at.block].tool
                .subagentCalls[at.call] =
               [@ EXCEPT !.result = <<content>>, !.isError = <<isError>>,
                         !.isLoading = <<TRUE>>]]
     ELSE setToolResult(s, toolUseId, content, <<isError>>)

\* handleToolResultComplete(toolUseId, content, isError); isError is <<>>
\* when undefined
handleToolResultComplete(s, toolUseId, content, isError) ==
  LET at == findSubagentCall(s, toolUseId)
  IN IF at.call # 0
     THEN [s EXCEPT
             !.messages[at.message].content.blocks[at.block].tool
                .subagentCalls[at.call] =
               [@ EXCEPT !.result = <<content>>,
                         !.isError = IF isError # <<>> THEN isError ELSE @,
                         !.isLoading = <<FALSE>>]]
     ELSE setToolResult(s, toolUseId, content, isError)

\* formatAssistantContent of a content array that holds one text block
formatAssistantContent(text) == trim(text)

\* appendToolResultContent: the result it sets, which it also returns
nextToolResult(s, toolUseId, content) ==
  LET existing == getToolResult(s, toolUseId)
  IN IF existing # <<>> /\ existing[1] # <<>>
     THEN existing[1] \o <<"\n">> \o content
     ELSE content

appendToolResultContent(s, toolUseId, content) ==
  setToolResult(s, toolUseId, nextToolResult(s, toolUseId, content), <<>>)

\* appendToolResultDelta that replaces the result by the delta
appendToolResultDeltaOverwrite(s, toolUseId, delta) ==
  LET top == findToolBlockById(s, toolUseId)
  IN IF top = NoPlace THEN s
     ELSE [s EXCEPT
             !.messages[top.message].content.blocks[top.block].tool.result = <<delta>>]

appendToolResultDelta(s, toolUseId, delta) ==
  LET at == findSubagentCall(s, toolUseId)
      top == findToolBlockById(s, toolUseId)
  IN IF at.call # 0
     THEN [s EXCEPT
             !.messages[at.message].content.blocks[at.block].tool
                .subagentCalls[at.call] =
               [@ EXCEPT !.result = appendResult(@, delta), !.isLoading = <<TRUE>>]]
     ELSE IF top = NoPlace THEN s
          ELSE [s EXCEPT
                  !.messages[top.message].content.blocks[top.block].tool.result =
                     appendResult(@, delta)]

\* handleContentBlockStop(index, toolId); toolId is "" when undefined
handleContentBlockStop(s0, index, toolId) ==
  LET s == ensureContentArray(ensureAssistantMessage(s0))
      n == Len(s.messages)
      bs == s.messages[n].content.blocks
      k == findOpenThinking(bs, index)
      b == IF toolId # "" THEN findToolById(bs, 1, toolId)
           ELSE findToolByIndex(bs, 1, index)
  IN IF k # 0
     THEN [s EXCEPT !.messages[n].content.blocks[k].isComplete = TRUE,
                    !.messages[n].content.blocks[k].thinkingDurationMs =
                       thinkingDuration(bs[k], s.now)]
     ELSE IF b # 0 /\ bs[b].tool.inputJson # <<>>
          THEN [s EXCEPT !.messages[n].content.blocks[b].tool.parsedInput =
                  reconcileInput(bs[b].tool)]
          ELSE s

\* handleMessageComplete that closes the message and leaves the state alone
handleMessageCompleteKeepsState(s) ==
  [s EXCEPT !.isStreamingMessage = FALSE]

handleMessageComplete(s) ==
  setSessionState([s EXCEPT !.isStreamingMessage = FALSE], "idle")

closeThinking(b, clock) ==
  IF b.type = "thinking" /\ ~b.isComplete
  THEN [b EXCEPT !.isComplete = TRUE,
                 !.thinkingDurationMs = thinkingDuration(b, clock)]
  ELSE b

\* handleMessageStopped that closes the message and leaves the state alone
handleMessageStoppedKeepsState(s0) ==
  LET s == [s0 EXCEPT !.isStreamingMessage = FALSE]
      n == Len(s.messages)
  IN IF n = 0 \/ s.messages[n].role # "assistant" \/ s.messages[n].content.isString
     THEN s
     ELSE [s EXCEPT !.messages[n].content.blocks =
             [i \in 1..Len(@) |-> closeThinking(@[i], s.now)]]

handleMessageStopped(s0) ==
  LET s == setSessionState([s0 EXCEPT !.isStreamingMessage = FALSE], "idle")
      n == Len(s.messages)
  IN IF n = 0 \/ s.messages[n].role # "assistant" \/ s.messages[n].content.isString
     THEN s
     ELSE [s EXCEPT !.messages[n].content.blocks =
             [i \in 1..Len(@) |-> closeThinking(@[i], s.now)]]

\* `Error: ${error}`
formatError(error) == <<"Error: ">> \o error

\* handleMessageError that turns the open assistant message into the error
handleMessageErrorInPlace(s0, error) ==
  LET s == setSessionState([s0 EXCEPT !.isStreamingMessage = FALSE], "idle")
      n == Len(s.messages)
  IN IF n > 0 /\ s.messages[n].role = "assistant" /\ s0.isStreamingMessage
     THEN [s EXCEPT !.messages[n].content = StringContent(formatError(error))]
     ELSE [s EXCEPT
             !.messages = Append(@, MessageWire(s.messageSequence, "assistant",
                                                StringContent(formatError(error)))),
             !.messageSequence = @ + 1]

handleMessageError(s0, error) ==
  LET s == setSessionState([s0 EXCEPT !.isStreamingMessage = FALSE], "idle")
  IN [s EXCEPT
        !.messages = Append(@, MessageWire(s.messageSequence, "assistant",
                                           StringContent(formatError(error)))),
        !.messageSequence = @ + 1]

appendLogLine(s, line) ==
  LET pushed == Append(s.logLines, line)
      kept == IF Len(pushed) > LogCap THEN Tail(pushed) ELSE pushed
  IN broadcast([s EXCEPT !.logLines = kept],
               [Frame("chat:log") EXCEPT !.sdk = line])

isSessionActive(s) == s.isProcessing \/ s.querySession # Null

\* ---------------------------------------------------------- run lifecycle
\* startRun without the guard of index.ts:1120
startRunUnguarded(s) ==
  LET r == s.runCounter + 1
      s1 == [s EXCEPT !.shouldAbortSession = FALSE, !.isProcessing = TRUE,
                      !.streamIndexToToolId = [i \in BlockIndexes |-> ""]]
      s2 == setSessionState(s1, "running")
  IN [s2 EXCEPT !.sessionTerminationPromise = r,
                !.querySession = r,
                !.runCounter = r,
                !.liveRuns = @ \cup {r}]

\* startStreamingSession from the guard at index.ts:1120 up to the first
\* suspension of the for-await loop at index.ts:1162
startRun(s) ==
  IF s.isProcessing \/ s.querySession # Null
  THEN s
  ELSE LET r == s.runCounter + 1
           s1 == [s EXCEPT !.shouldAbortSession = FALSE, !.isProcessing = TRUE,
                           !.streamIndexToToolId = [i \in BlockIndexes |-> ""]]
           s2 == setSessionState(s1, "running")
       IN [s2 EXCEPT !.sessionTerminationPromise = r,
                     !.querySession = r,
                     !.runCounter = r,
                     !.liveRuns = @ \cup {r}]

\* startStreamingSession that does not await the termination promise
startStreamingSessionNoWait(s) == startRun(s)

\* startStreamingSession as called: it suspends on the termination promise of
\* the previous run when there is one, and otherwise runs on at once
startStreamingSession(s) ==
  IF s.sessionTerminationPromise # Null
  THEN [s EXCEPT !.pendingStarts = Append(@, s.sessionTerminationPromise)]
  ELSE startRun(s)

\* releaseRun with a finally block that leaves the state as it finds it
releaseRunKeepsState(s, r) ==
  [s EXCEPT !.isProcessing = FALSE, !.querySession = Null,
            !.terminated = @ \cup {r}, !.liveRuns = @ \ {r}]

\* the finally block of run r
releaseRun(s, r) ==
  LET s1 == [s EXCEPT !.isProcessing = FALSE, !.querySession = Null]
      s2 == IF s1.sessionState # "error" THEN setSessionState(s1, "idle") ELSE s1
  IN [s2 EXCEPT !.terminated = @ \cup {r}, !.liveRuns = @ \ {r}]

UnknownError == <<"Unknown error occurred">>

\* the catch block of run r, then its finally block
failRun(s, r, thrown) ==
  LET errorMessage == IF thrown.isError THEN thrown.message ELSE UnknownError
      s1 == broadcast(s, [Frame("chat:message-error") EXCEPT !.text = errorMessage])
      s2 == handleMessageError(s1, errorMessage)
      s3 == setSessionState(s2, "error")
  IN releaseRun(s3, r)

\* content_block_start of a tool_use block
applyToolUseStart(s, m) ==
  LET s1 == [s EXCEPT !.streamIndexToToolId[m.index] = m.id]
      toolPayload == ToolUseState(m.id, m.name, m.input, m.index)
  IN IF m.parent_tool_use_id # ""
     THEN handleSubagentToolUseStart(
            broadcast(s1, [Frame("chat:subagent-tool-use") EXCEPT
                             !.parentToolUseId = m.parent_tool_use_id,
                             !.tool = toolPayload]),
            m.parent_tool_use_id, toolPayload)
     ELSE handleToolUseStart(
            broadcast(s1, [Frame("chat:tool-use-start") EXCEPT !.tool = toolPayload]),
            toolPayload)

\* the parent of the tool a result names: the one the session has learned,
\* or else the one the frame gives
resultParent(s, m) ==
  IF s.childToolToParent[m.id] # "" THEN s.childToolToParent[m.id]
  ELSE m.parent_tool_use_id

\* the placeholder and the broadcast that come before a result is recorded
announceToolResult(s, m, subagentEvent, topEvent, isError) ==
  LET parentToolUseId == resultParent(s, m)
      s1 == IF parentToolUseId # "" /\ s.childToolToParent[m.id] = ""
            THEN ensureSubagentToolPlaceholder(s, parentToolUseId, m.id)
            ELSE s
  IN IF parentToolUseId # ""
     THEN broadcast(s1, [Frame(subagentEvent) EXCEPT
                           !.parentToolUseId = parentToolUseId,
                           !.toolId = m.id, !.text = m.text, !.isError = isError])
     ELSE broadcast(s1, [Frame(topEvent) EXCEPT
                           !.toolId = m.id, !.text = m.text, !.isError = isError])

\* content_block_start of a tool result block
applyToolResultStart(s, m) ==
  LET s1 == [s EXCEPT !.toolResultIndexToId[m.index] = m.id]
  IN IF m.text = <<>> THEN s1
     ELSE handleToolResultStart(
            announceToolResult(s1, m, "chat:subagent-tool-result-start",
                               "chat:tool-result-start", <<FALSE>>),
            m.id, m.text, FALSE)

\* a text delta of a frame that names a parent tool
applyToolResultDelta(s, m) ==
  LET parentToolUseId == s.childToolToParent[m.parent_tool_use_id]
      s1 == IF parentToolUseId # ""
            THEN broadcast(s, [Frame("chat:subagent-tool-result-delta") EXCEPT
                                 !.parentToolUseId = parentToolUseId,
                                 !.toolId = m.parent_tool_use_id, !.text = m.text])
            ELSE broadcast(s, [Frame("chat:tool-result-delta") EXCEPT
                                 !.toolId = m.parent_tool_use_id, !.text = m.text])
  IN appendToolResultDelta(s1, m.parent_tool_use_id, m.text)

\* a user frame of a subagent that holds one tool_result block
applyUserToolResult(s, m) ==
  IF m.parent_tool_use_id = "" THEN s
  ELSE handleToolResultComplete(
         announceToolResult(s, m, "chat:subagent-tool-result-complete",
                            "chat:tool-result-complete", <<>>),
         m.id, m.text, <<>>)

\* an assistant frame of a subagent whose content is one text block
applyAssistantText(s, m) ==
  LET text == formatAssistantContent(m.text)
  IN IF m.parent_tool_use_id = "" \/ text = <<>> THEN s
     ELSE broadcast(appendToolResultContent(s, m.parent_tool_use_id, text),
                    [Frame("chat:tool-result-complete") EXCEPT
                       !.toolId = m.parent_tool_use_id,
                       !.text = nextToolResult(s, m.parent_tool_use_id, text)])

\* content_block_stop of a frame that names a parent tool
applySubagentBlockStop(s, m) ==
  LET toolId == s.streamIndexToToolId[m.index]
      s1 == IF toolId # ""
            THEN finalizeSubagentToolInput(s, m.parent_tool_use_id, toolId)
            ELSE s
      toolResultId == s1.toolResultIndexToId[m.index]
  IN IF toolResultId = "" THEN s1
     ELSE LET s2 == [s1 EXCEPT !.toolResultIndexToId[m.index] = ""]
          IN IF subagentToolResultFound(s2, toolResultId)
             THEN LET s3 == finalizeSubagentToolResult(s2, toolResultId)
                  IN IF s3.childToolToParent[toolResultId] # ""
                     THEN broadcast(s3, [Frame("chat:subagent-tool-result-complete")
                                           EXCEPT
                                           !.parentToolUseId =
                                              s3.childToolToParent[toolResultId],
                                           !.toolId = toolResultId,
                                           !.text = getSubagentToolResult(s3, toolResultId)])
                     ELSE s3
             ELSE s2

\* content_block_stop
applyBlockStop(s, m) ==
  IF m.parent_tool_use_id # ""
  THEN applySubagentBlockStop(s, m)
  ELSE LET toolId == s.streamIndexToToolId[m.index]
       IN handleContentBlockStop(
            broadcast(s, [Frame("chat:content-block-stop") EXCEPT
                            !.index = m.index, !.toolId = toolId]),
            m.index, toolId)

handleToolInputDelta(s0, index, toolId, delta) ==
  LET s == ensureContentArray(ensureAssistantMessage(s0))
      n == Len(s.messages)
      b == findToolById(s.messages[n].content.blocks, 1, toolId)
  IN IF b = 0 THEN s
     ELSE LET newInputJson == s.messages[n].content.blocks[b].tool.inputJson \o delta
              parsedInput == parsePartialJson(newInputJson)
          IN [s EXCEPT
                !.messages[n].content.blocks[b].tool.inputJson = newInputJson,
                !.messages[n].content.blocks[b].tool.parsedInput =
                   IF parsedInput # <<>> THEN parsedInput ELSE @]

handleSubagentToolInputDelta(s, parentToolUseId, toolId, delta) ==
  LET at == findToolBlockById(s, parentToolUseId)
  IN IF at = NoPlace THEN s
     ELSE LET calls == s.messages[at.message].content.blocks[at.block].tool.subagentCalls
              c == findCall(calls, 1, toolId)
          IN IF c = 0 THEN s
             ELSE LET newInputJson == calls[c].inputJson \o delta
                      parsedInput == parsePartialJson(newInputJson)
                  IN [s EXCEPT
                        !.messages[at.message].content.blocks[at.block].tool
                           .subagentCalls[c] =
                          [@ EXCEPT !.inputJson = newInputJson,
                                    !.parsedInput = IF parsedInput # <<>>
                                                    THEN parsedInput ELSE @]]

\* content_block_delta with an input_json_delta
applyToolInputDelta(s, m) ==
  LET toolId == s.streamIndexToToolId[m.index]
  IN IF m.parent_tool_use_id # ""
     THEN handleSubagentToolInputDelta(
            broadcast(s, [Frame("chat:subagent-tool-input-delta") EXCEPT
                            !.parentToolUseId = m.parent_tool_use_id,
                            !.toolId = toolId, !.text = m.text]),
            m.parent_tool_use_id, toolId, m.text)
     ELSE handleToolInputDelta(
            broadcast(s, [Frame("chat:tool-input-delta") EXCEPT
                            !.index = m.index, !.toolId = toolId, !.text = m.text]),
            m.index, toolId, m.text)

\* the mapping of one runtime frame onto the hub and the transcript
applySdkMessage(s, r, m) ==
  CASE m.type = "text_delta" /\ m.parent_tool_use_id # "" ->
         applyToolResultDelta(s, m)
    [] m.type = "text_delta" /\ m.parent_tool_use_id = "" ->
         appendTextChunk(
           broadcast(s, [Frame("chat:message-chunk") EXCEPT !.text = m.text]),
           m.text)
    [] m.type = "tool_result_start" -> applyToolResultStart(s, m)
    [] m.type = "user_tool_result" -> applyUserToolResult(s, m)
    [] m.type = "assistant" -> applyAssistantText(s, m)
    [] m.type = "thinking_delta" ->
         handleThinkingChunk(
           broadcast(s, [Frame("chat:thinking-chunk") EXCEPT
                           !.index = m.index, !.text = m.text]),
           m.index, m.text)
    [] m.type = "thinking_start" ->
         handleThinkingStart(
           broadcast(s, [Frame("chat:thinking-start") EXCEPT !.index = m.index]),
           m.index)
    [] m.type = "tool_use_start" -> applyToolUseStart(s, m)
    [] m.type = "input_json_delta" -> applyToolInputDelta(s, m)
    [] m.type = "content_block_stop" -> applyBlockStop(s, m)
    [] m.type = "result" ->
         LET s1 == handleMessageComplete(broadcast(s, Frame("chat:message-complete")))
         IN [s1 EXCEPT !.inflight[r] = @ - 1]
    [] OTHER -> s

\* one iteration of the for-await loop of run r
consumeSdkMessage(s, r, m) ==
  LET s1 == appendLogLine(s, m)
  IN IF s1.shouldAbortSession
     THEN releaseRun(s1, r)
     ELSE applySdkMessage(s1, r, m)

\* ----------------------------------------------------------------- enqueue
QueueItem(text, promise) == [text |-> text, resolve |-> promise]

\* enqueueUserMessage that announces the user message only when a run is
\* there to answer it
enqueueUserMessageQuietly(s, text) ==
  LET trimmed == trim(text)
  IN IF trimmed = <<>>
     THEN s
     ELSE LET s1 == setSessionState([s EXCEPT !.hasInitialPrompt = TRUE], "running")
              userMessage == MessageWire(s1.messageSequence, "user",
                                         StringContent(trimmed))
              s2 == [s1 EXCEPT !.messages = Append(@, userMessage),
                               !.messageSequence = @ + 1]
              s3 == IF isSessionActive(s2)
                    THEN broadcast(s2, [Frame("chat:message-replay") EXCEPT
                                          !.message = userMessage])
                    ELSE startStreamingSession(s2)
          IN [s3 EXCEPT !.messageQueue = Append(@, QueueItem(trimmed, userMessage.id + 1))]

\* enqueueUserMessage up to its await; the promise of the queue item is named
\* by the id of the user message
enqueueUserMessage(s, text) ==
  LET trimmed == trim(text)
  IN IF trimmed = <<>>
     THEN s
     ELSE LET s1 == setSessionState([s EXCEPT !.hasInitialPrompt = TRUE], "running")
              userMessage == MessageWire(s1.messageSequence, "user",
                                         StringContent(trimmed))
              s2 == [s1 EXCEPT !.messages = Append(@, userMessage),
                               !.messageSequence = @ + 1]
              s3 == broadcast(s2, [Frame("chat:message-replay") EXCEPT
                                     !.message = userMessage])
              s4 == IF ~isSessionActive(s3) THEN startStreamingSession(s3) ELSE s3
          IN [s4 EXCEPT !.messageQueue = Append(@, QueueItem(trimmed, userMessage.id + 1))]

\* ------------------------------------------------------------- the viewers
RECURSIVE sendAll(_, _, _)
sendAll(s, v, frames) ==
  IF frames = <<>> THEN s
  ELSE sendAll(send(s, v, Head(frames)), v, Tail(frames))

getAgentState(s) ==
  [Frame("chat:init") EXCEPT !.agentDir = s.agentDir,
                             !.sessionState = s.sessionState,
                             !.hasInitialPrompt = s.hasInitialPrompt]

\* connectViewer that replays the transcript ahead of the init frame
connectViewerReplayFirst(s, v) ==
  LET s1 == [s EXCEPT !.clients = @ \cup {v}]
      s2 == sendAll(s1, v, [i \in 1..Len(s1.messages) |->
                              [Frame("chat:message-replay") EXCEPT
                                 !.message = s1.messages[i]]])
      s3 == send(s2, v, getAgentState(s2))
  IN send(s3, v, [Frame("chat:logs") EXCEPT !.lines = s3.logLines])

\* GET /chat/stream: createSseClient registers the channel, then the handler
\* writes init, the replay and the log to it
connectViewer(s, v) ==
  LET s1 == [s EXCEPT !.clients = @ \cup {v}]
      s2 == send(s1, v, getAgentState(s1))
      s3 == sendAll(s2, v, [i \in 1..Len(s2.messages) |->
                              [Frame("chat:message-replay") EXCEPT
                                 !.message = s2.messages[i]]])
  IN send(s3, v, [Frame("chat:logs") EXCEPT !.lines = s3.logLines])

\* ------------------------------------------------------------- interrupt
\* interruptOutcome without the latch of index.ts:1100
interruptOutcomeNoLatch(s) ==
  IF s.querySession = Null THEN "false" ELSE "pending"

\* interruptCurrentResponse up to its await: the value it returns at once,
\* or "pending" when it goes on to call querySession.interrupt()
interruptOutcome(s) ==
  IF s.querySession = Null THEN "false"
  ELSE IF s.isInterruptingResponse THEN "true"
  ELSE "pending"

\* interruptCurrentResponse that announces a stop also when there is no
\* handle to interrupt
interruptCurrentResponseEager(s) ==
  IF interruptOutcome(s) = "pending"
  THEN [s EXCEPT !.isInterruptingResponse = TRUE,
                 !.interruptTarget = s.querySession,
                 !.interruptsAsked[s.querySession] = @ + 1]
  ELSE IF interruptOutcome(s) = "false"
       THEN handleMessageStopped(broadcast(s, Frame("chat:message-stopped")))
       ELSE s

interruptCurrentResponse(s) ==
  IF interruptOutcome(s) = "pending"
  THEN [s EXCEPT !.isInterruptingResponse = TRUE,
                 !.interruptTarget = s.querySession,
                 !.interruptsAsked[s.querySession] = @ + 1]
  ELSE s

\* interruptCurrentResponse after querySession.interrupt() has resolved
interruptResolved(s) ==
  [handleMessageStopped(broadcast(s, Frame("chat:message-stopped")))
     EXCEPT !.isInterruptingResponse = FALSE, !.interruptTarget = Null]

\* a rejection that leaves the in-flight latch set
interruptRejectedKeepsLatch(s) ==
  [s EXCEPT !.interruptTarget = Null]

\* interruptCurrentResponse after querySession.interrupt() has rejected
interruptRejected(s) ==
  [s EXCEPT !.isInterruptingResponse = FALSE, !.interruptTarget = Null]

\* ----------------------------------------------------------------- actions
Call(op, result) == [op |-> op, result |-> result]

\* the history of text deltas of the newest message, after a segment that
\* consumed frame m (NoSdk when it consumed none)
Observe(m) ==
  LET fresh == Len(messages') > Len(messages)
      delta == IF m.type = "text_delta" /\ m.parent_tool_use_id = ""
               THEN m.text ELSE <<>>
  IN openDeltas' = IF fresh THEN delta ELSE openDeltas \o delta

\* POST /chat/send reaching enqueueUserMessage(text)
Enqueue(text) ==
  /\ nReq < MaxRequests
  /\ nReq' = nReq + 1
  /\ Assign(enqueueUserMessage(Cur, text))
  /\ Observe(NoSdk)
  /\ lastCall' = Call("enqueueUserMessage",
                      IF trim(text) = <<>> THEN "returned" ELSE "pending")
  /\ UNCHANGED <<connected, snapshot, nEv>>

\* a suspended startStreamingSession resumes once the promise it awaits is
\* resolved
ResumeStart ==
  /\ pendingStarts # <<>>
  /\ Head(pendingStarts) \in terminated
  /\ Assign(startRun([Cur EXCEPT !.pendingStarts = Tail(@)]))
  /\ Observe(NoSdk)
  /\ lastCall' = Call("startStreamingSession",
                      IF isSessionActive(Cur) THEN "returned" ELSE "started")
  /\ UNCHANGED <<connected, snapshot, nReq, nEv>>

\* a feed that takes the newest item of the queue
messageGeneratorYieldNewest(s, r) ==
  LET item == Last(s.messageQueue)
  IN [s EXCEPT !.messageQueue = SubSeq(@, 1, Len(@) - 1),
               !.yielded[r] = item.resolve,
               !.inflight[r] = @ + 1,
               !.fed = Append(@, item)]

\* messageGenerator from messageQueue.shift() to its yield
messageGeneratorYield(s, r) ==
  LET item == Head(s.messageQueue)
  IN [s EXCEPT !.messageQueue = Tail(@),
               !.yielded[r] = item.resolve,
               !.inflight[r] = @ + 1,
               !.fed = Append(@, item)]

\* a feed that, resumed, resolves the promise of the item at the head of the
\* queue when there is one
messageGeneratorResumeHead(s, r) ==
  [s EXCEPT !.resolved = @ \cup {IF s.messageQueue # <<>>
                                 THEN Head(s.messageQueue).resolve
                                 ELSE s.yielded[r]},
            !.yielded[r] = Null]

\* messageGenerator resumed after its yield: item.resolve()
messageGeneratorResume(s, r) ==
  [s EXCEPT !.resolved = @ \cup {s.yielded[r]},
            !.yielded[r] = Null]

\* messageGenerator of run r finds the queue non-empty, shifts an item and
\* yields it to the runtime
FeedYield(r) ==
  /\ r \in liveRuns
  /\ yielded[r] = Null
  /\ ~shouldAbortSession
  /\ messageQueue # <<>>
  /\ Assign(messageGeneratorYield(Cur, r))
  /\ Observe(NoSdk)
  /\ lastCall' = Call("messageGenerator", "yielded")
  /\ UNCHANGED <<connected, snapshot, nReq, nEv>>

\* the runtime asks the feed of run r for the next item: the generator
\* resumes after its yield and resolves the promise of the item it gave
FeedResume(r) ==
  /\ r \in liveRuns
  /\ yielded[r] # Null
  /\ Assign(messageGeneratorResume(Cur, r))
  /\ Observe(NoSdk)
  /\ lastCall' = Call("messageGenerator", "resolved")
  /\ UNCHANGED <<connected, snapshot, nReq, nEv>>

\* the feed of a run that has ended is still polling the queue (nothing sets
\* shouldAbortSession): it shifts an item and yields it to the runtime that
\* is gone
StaleFeedYield(r) ==
  /\ r \in terminated
  /\ yielded[r] = Null
  /\ ~shouldAbortSession
  /\ messageQueue # <<>>
  /\ Assign(messageGeneratorYield(Cur, r))
  /\ Observe(NoSdk)
  /\ lastCall' = Call("messageGenerator", "yielded")
  /\ UNCHANGED <<connected, snapshot, nReq, nEv>>

\* the runtime of run r emits a frame of a response it is producing, fewer
\* than `budget` frames having been consumed
RuntimeEventWithin(r, m, budget) ==
  /\ r \in liveRuns
  /\ inflight[r] > 0
  /\ nEv < budget
  /\ nEv' = nEv + 1
  /\ Assign(consumeSdkMessage(Cur, r, m))
  /\ Observe(m)
  /\ lastCall' = Call("sdkMessage", m.type)
  /\ UNCHANGED <<connected, snapshot, nReq>>

RuntimeEvent(r, m) == RuntimeEventWithin(r, m, MaxEvents)

\* the event stream of run r raises
RuntimeRaises(r, thrown) ==
  /\ r \in liveRuns
  /\ nEv < MaxEvents
  /\ nEv' = nEv + 1
  /\ Assign(failRun(Cur, r, thrown))
  /\ Observe(NoSdk)
  /\ lastCall' = Call("sdkMessage", "raised")
  /\ UNCHANGED <<connected, snapshot, nReq>>

\* the event stream of run r ends
RuntimeEnds(r) ==
  /\ r \in liveRuns
  /\ nEv < MaxEvents
  /\ nEv' = nEv + 1
  /\ Assign(releaseRun(Cur, r))
  /\ Observe(NoSdk)
  /\ lastCall' = Call("sdkMessage", "ended")
  /\ UNCHANGED <<connected, snapshot, nReq>>

\* POST /chat/stop reaching interruptCurrentResponse, up to its await
Interrupt ==
  /\ nReq < MaxRequests
  /\ nReq' = nReq + 1
  /\ Assign(interruptCurrentResponse(Cur))
  /\ Observe(NoSdk)
  /\ lastCall' = Call("interruptCurrentResponse", interruptOutcome(Cur))
  /\ UNCHANGED <<connected, snapshot, nEv>>

\* querySession.interrupt() resolves: the rest of interruptCurrentResponse
InterruptSettles ==
  /\ interruptTarget # Null
  /\ Assign(interruptResolved(Cur))
  /\ Observe(NoSdk)
  /\ lastCall' = Call("interrupt", "resolved")
  /\ UNCHANGED <<connected, snapshot, nReq, nEv>>

\* querySession.interrupt() rejects: only the finally block runs
InterruptRejects ==
  /\ interruptTarget # Null
  /\ Assign(interruptRejected(Cur))
  /\ Observe(NoSdk)
  /\ lastCall' = Call("interrupt", "rejected")
  /\ UNCHANGED <<connected, snapshot, nReq, nEv>>

Snapshot(at, state, seed, msgs) ==
  [at |-> at, sessionState |-> state, hasInitialPrompt |-> seed, messages |-> msgs]

\* GET /chat/stream
Connect(v) ==
  /\ v \notin connected
  /\ nReq < MaxRequests
  /\ nReq' = nReq + 1
  /\ connected' = connected \cup {v}
  /\ snapshot' = [snapshot EXCEPT ![v] =
                    Snapshot(Len(bcast), sessionState, hasInitialPrompt, messages)]
  /\ Assign(connectViewer(Cur, v))
  /\ Observe(NoSdk)
  /\ lastCall' = Call("connect", "stream")
  /\ UNCHANGED <<nEv>>

\* the viewer closes its stream (ReadableStream cancel)
Disconnect(v) ==
  /\ v \in clients
  /\ nReq < MaxRequests
  /\ nReq' = nReq + 1
  /\ Assign([Cur EXCEPT !.clients = @ \ {v}])
  /\ Observe(NoSdk)
  /\ lastCall' = Call("disconnect", "cancel")
  /\ UNCHANGED <<connected, snapshot, nEv>>

\* the stream of viewer v breaks: from now on a write to it throws
ChannelFails(v) ==
  /\ v \in clients
  /\ v \notin failing
  /\ Assign([Cur EXCEPT !.failing = @ \cup {v}])
  /\ lastCall' = Call("stream", "broken")
  /\ UNCHANGED <<connected, snapshot, openDeltas, nReq, nEv>>

\* the module-level initialisers of index.ts:385-408
Fresh ==
  [agentDir |-> "", hasInitialPrompt |-> FALSE, sessionState |-> "idle",
   querySession |-> Null, isProcessing |-> FALSE, shouldAbortSession |-> FALSE,
   sessionTerminationPromise |-> Null, isInterruptingResponse |-> FALSE,
   isStreamingMessage |-> FALSE, messages |-> <<>>, messageSequence |-> 0,
   messageQueue |-> <<>>, logLines |-> <<>>,
   streamIndexToToolId |-> [i \in BlockIndexes |-> ""],
   toolResultIndexToId |-> [i \in BlockIndexes |-> ""],
   childToolToParent |-> [id \in ToolIds |-> ""], clients |-> {},
   chan |-> [v \in Viewers |-> <<>>], bcast |-> <<>>, pendingStarts |-> <<>>,
   runCounter |-> 0, liveRuns |-> {}, terminated |-> {},
   inflight |-> [r \in RunIds |-> 0], yielded |-> [r \in RunIds |-> Null],
   resolved |-> {}, interruptTarget |-> Null,
   interruptsAsked |-> [r \in RunIds |-> 0], now |-> 1, fed |-> <<>>,
   failing |-> {}]

\* initializeAgent(nextAgentDir, initialPrompt): the prompt, when it is not
\* blank, is enqueued at once
initializeAgent(s, nextAgentDir, initialPrompt) ==
  LET s1 == [s EXCEPT !.agentDir = nextAgentDir,
                      !.hasInitialPrompt = (trim(initialPrompt) # <<>>),
                      !.messageSequence = 0,
                      !.messages = <<>>,
                      !.messageQueue = <<>>,
                      !.childToolToParent = [id \in ToolIds |-> ""],
                      !.logLines = <<>>]
  IN IF s1.hasInitialPrompt
     THEN enqueueUserMessage(s1, trim(initialPrompt))
     ELSE s1

\* the --prompt argument: absent, or a text
InitialPrompts == {<<>>, <<"a", " ">>}

Holds(s) ==
  /\ agentDir = s.agentDir
  /\ hasInitialPrompt = s.hasInitialPrompt
  /\ sessionState = s.sessionState
  /\ querySession = s.querySession
  /\ isProcessing = s.isProcessing
  /\ shouldAbortSession = s.shouldAbortSession
  /\ sessionTerminationPromise = s.sessionTerminationPromise
  /\ isInterruptingResponse = s.isInterruptingResponse
  /\ isStreamingMessage = s.isStreamingMessage
  /\ messages = s.messages
  /\ messageSequence = s.messageSequence
  /\ messageQueue = s.messageQueue
  /\ logLines = s.logLines
  /\ streamIndexToToolId = s.streamIndexToToolId
  /\ toolResultIndexToId = s.toolResultIndexToId
  /\ childToolToParent = s.childToolToParent
  /\ clients = s.clients
  /\ chan = s.chan
  /\ bcast = s.bcast
  /\ pendingStarts = s.pendingStarts
  /\ runCounter = s.runCounter
  /\ liveRuns = s.liveRuns
  /\ terminated = s.terminated
  /\ inflight = s.inflight
  /\ yielded = s.yielded
  /\ resolved = s.resolved
  /\ interruptTarget = s.interruptTarget
  /\ interruptsAsked = s.interruptsAsked
  /\ now = s.now
  /\ fed = s.fed
  /\ failing = s.failing

\* ---- the file routes of the server
\* the characters of a path parameter, and the path parameters of a request
PathChars == {"a", ".", "/"}
RelativePaths == SeqsUpTo(PathChars, MaxPathLen)

\* resolvedAgentDir: the absolute, normalised agent directory /a
resolvedAgentDir == <<"/", "a">>

\* relativePath.replace(/^\/+/, '')
RECURSIVE stripLeadingSlashes(_)
stripLeadingSlashes(p) ==
  IF p # <<>> /\ Head(p) = "/" THEN stripLeadingSlashes(Tail(p)) ELSE p

\* the segments of a path between its slashes
RECURSIVE splitPath(_, _, _)
splitPath(p, acc, cur) ==
  IF p = <<>> THEN Append(acc, cur)
  ELSE IF Head(p) = "/" THEN splitPath(Tail(p), Append(acc, cur), <<>>)
  ELSE splitPath(Tail(p), acc, Append(cur, Head(p)))

\* path normalisation: empty and "." segments vanish, ".." drops the segment
\* before it and stays at the root
RECURSIVE normalizeSegments(_, _)
normalizeSegments(stack, segs) ==
  IF segs = <<>> THEN stack
  ELSE LET seg == Head(segs)
       IN IF seg = <<>> \/ seg = <<".">> THEN normalizeSegments(stack, Tail(segs))
          ELSE IF seg = <<".", ".">>
          THEN normalizeSegments(IF stack = <<>> THEN stack
                                 ELSE SubSeq(stack, 1, Len(stack) - 1), Tail(segs))
          ELSE normalizeSegments(Append(stack, seg), Tail(segs))

RECURSIVE joinSegments(_)
joinSegments(segs) ==
  IF segs = <<>> THEN <<>> ELSE <<"/">> \o Head(segs) \o joinSegments(Tail(segs))

absolutePath(segs) == IF segs = <<>> THEN <<"/">> ELSE joinSegments(segs)

\* path.resolve(root, p) for an absolute root: an absolute p replaces the root
resolve(root, p) ==
  IF p # <<>> /\ Head(p) = "/"
  THEN absolutePath(normalizeSegments(<<>>, splitPath(p, <<>>, <<>>)))
  ELSE absolutePath(normalizeSegments(<<>>, splitPath(root, <<>>, <<>>)
                                             \o splitPath(p, <<>>, <<>>)))

startsWith(s, prefix) == Len(prefix) <= Len(s) /\ SubSeq(s, 1, Len(prefix)) = prefix

\* resolveAgentPath: <<>> is null, <<path>> the resolved path
resolveAgentPath(root, relativePath) ==
  LET normalized == stripLeadingSlashes(relativePath)
      resolvedPath == resolve(root, normalized)
  IN IF ~startsWith(resolvedPath, root) THEN <<>> ELSE <<resolvedPath>>

\* the response of a file route and the path the route went to on the disk
Response(status, path) == [status |-> status, path |-> path]

\* GET /agent/download?path=relativePath; the file may exist or not
Download(relativePath) ==
  /\ nReq < MaxFileRequests
  /\ \E exists \in BOOLEAN :
       LET resolvedPath == resolveAgentPath(resolvedAgentDir, relativePath)
       IN lastCall' = Call("/agent/download",
            IF relativePath = <<>> THEN Response("400 Missing path.", <<>>)
            ELSE IF resolvedPath = <<>> THEN Response("400 Invalid path.", <<>>)
            ELSE IF ~exists THEN Response("404 File not found.", resolvedPath)
            ELSE Response("200", resolvedPath))
  /\ nReq' = nReq + 1
  /\ UNCHANGED <<connected, snapshot, openDeltas, nEv>>
  /\ Assign(Cur)

\* GET /agent/file?path=relativePath; the file may be missing, of another
\* type, too large or unreadable
PreviewOutcomes ==
  {"404 File not found.", "415 File type not supported.",
   "413 File too large to preview.", "500", "200"}

File(relativePath) ==
  /\ nReq < MaxFileRequests
  /\ \E outcome \in PreviewOutcomes :
       LET resolvedPath == resolveAgentPath(resolvedAgentDir, relativePath)
       IN lastCall' = Call("/agent/file",
            IF relativePath = <<>> THEN Response("400 Missing path.", <<>>)
            ELSE IF resolvedPath = <<>> THEN Response("400 Invalid path.", <<>>)
            ELSE Response(outcome, resolvedPath))
  /\ nReq' = nReq + 1
  /\ UNCHANGED <<connected, snapshot, openDeltas, nEv>>
  /\ Assign(Cur)

\* POST /agent/upload?path=targetParam; the form may hold no file, and the
\* directory or a file may fail to be written
UploadOutcomes == {"400 No files provided.", "500", "200"}

Upload(targetParam) ==
  /\ nReq < MaxFileRequests
  /\ \E outcome \in UploadOutcomes :
       LET resolvedTarget == IF targetParam # <<>>
                             THEN resolveAgentPath(resolvedAgentDir, targetParam)
                             ELSE <<resolvedAgentDir>>
       IN lastCall' = Call("/agent/upload",
            IF resolvedTarget = <<>> THEN Response("400 Invalid path.", <<>>)
            ELSE IF outcome = "400 No files provided." THEN Response(outcome, <<>>)
            ELSE Response(outcome, resolvedTarget))
  /\ nReq' = nReq + 1
  /\ UNCHANGED <<connected, snapshot, openDeltas, nEv>>
  /\ Assign(Cur)

\* the clock read by Date.now() moves on between two segments
Tick ==
  /\ now < MaxClock
  /\ Assign([Cur EXCEPT !.now = @ + 1])
  /\ lastCall' = Call("Date.now", "advanced")
  /\ UNCHANGED <<connected, snapshot, openDeltas, nReq, nEv>>

\* the state after main() has called initializeAgent
Init ==
  /\ \E prompt \in InitialPrompts : Holds(initializeAgent(Fresh, "dir", prompt))
  /\ connected = {}
  /\ snapshot = [v \in Viewers |-> Snapshot(0, "idle", FALSE, <<>>)]
  /\ openDeltas = <<>>
  /\ lastCall = Call("initializeAgent", "returned")
  /\ nReq = 0
  /\ nEv = 0

\* the handlers and continuations that do not depend on the kind of frame
Lifecycle ==
  \/ \E text \in TextInputs : Enqueue(text)
  \/ ResumeStart
  \/ \E r \in RunIds : FeedYield(r)
  \/ \E r \in RunIds : FeedResume(r)
  \/ \E r \in RunIds, thrown \in Thrown : RuntimeRaises(r, thrown)
  \/ \E r \in RunIds : RuntimeEnds(r)
  \/ Interrupt
  \/ InterruptSettles
  \/ InterruptRejects

\* the session with its viewers, the runtime answering in text
Next ==
  \/ Lifecycle
  \/ \E r \in RunIds, m \in TextFrames : RuntimeEvent(r, m)
  \/ \E v \in Viewers : Connect(v)
  \/ \E v \in Viewers : Disconnect(v)

Spec == Init /\ [][Next]_vars

\* the session without viewers, the runtime answering in text and thinking
\* blocks
NextBlocks ==
  \/ Lifecycle
  \/ \E r \in RunIds, m \in SdkMessages : RuntimeEvent(r, m)

SpecBlocks == Init /\ [][NextBlocks]_vars

\* the session without viewers, the runtime thinking while the clock runs
NextThinking ==
  \/ Lifecycle
  \/ \E r \in RunIds, m \in ThinkingFrames : RuntimeEvent(r, m)
  \/ Tick

SpecThinking == Init /\ [][NextThinking]_vars

\* the session without viewers, runs ending and restarting while the feeds
\* of ended runs keep polling
NextFeed ==
  \/ Lifecycle
  \/ \E r \in RunIds : RuntimeEvent(r, Sdk("result", -1, <<>>))
  \/ \E r \in RunIds : StaleFeedYield(r)

SpecFeed == Init /\ [][NextFeed]_vars

\* the same under a fair scheduler: a feed that polls a queue that is not
\* empty takes an item (setTimeout of 100 ms), the runtime pulls again from a
\* feed that has yielded, and a start that waits on a resolved termination
\* promise resumes
FairFeed ==
  /\ \A r \in RunIds : WF_vars(FeedYield(r))
  /\ \A r \in RunIds : WF_vars(StaleFeedYield(r))
  /\ \A r \in RunIds : WF_vars(FeedResume(r))
  /\ WF_vars(ResumeStart)

SpecFeedFair == SpecFeed /\ FairFeed

\* the file routes, asked with every path parameter
NextFiles ==
  \E relativePath \in RelativePaths :
    \/ Download(relativePath)
    \/ File(relativePath)
    \/ Upload(relativePath)

SpecFiles == Init /\ [][NextFiles]_vars

\* the session without viewers, the runtime reporting the result of a tool
NextTopResults ==
  \/ Lifecycle
  \/ \E r \in RunIds, m \in TopResultFrames : RuntimeEvent(r, m)

SpecTopResults == Init /\ [][NextTopResults]_vars

\* the session without viewers, the runtime declaring tools and their parents
NextParents ==
  \/ Lifecycle
  \/ \E r \in RunIds, m \in ParentFrames : RuntimeEventWithin(r, m, MaxToolEvents)

SpecParents == Init /\ [][NextParents]_vars

\* the session without viewers, the runtime reporting tool results
NextResults ==
  \/ Lifecycle
  \/ \E r \in RunIds, m \in ResultFrames : RuntimeEvent(r, m)

SpecResults == Init /\ [][NextResults]_vars

\* the session with its viewers, whose streams may break
NextHub ==
  \/ Next
  \/ \E v \in Viewers : ChannelFails(v)

SpecHub == Init /\ [][NextHub]_vars

\* the session without viewers, the runtime opening and closing tool blocks
NextTools ==
  \/ Lifecycle
  \/ \E r \in RunIds, m \in ToolFrames : RuntimeEvent(r, m)

SpecTools == Init /\ [][NextTools]_vars

\* one run fed by its queue, the runtime streaming the inputs of tools
NextInputs ==
  \/ \E r \in RunIds : FeedYield(r)
  \/ \E r \in RunIds, m \in InputFrames : RuntimeEventWithin(r, m, MaxToolEvents)

SpecInputs == Init /\ [][NextInputs]_vars

\* ------------------------------------------------------------------ claims
\* the segment that has just run is an accepted enqueueUserMessage
EnqueueAccepted ==
  lastCall'.op = "enqueueUserMessage" /\ lastCall'.result = "pending"

\* C1: at most one runtime session is live at any time, and its handle is the
\* one the session holds; an enqueue made while a session is active appends
\* the user message and is accepted, and starts no run and schedules no start.
C1_SingleRuntime ==
  [][/\ Cardinality(liveRuns') <= 1
     /\ \A r \in liveRuns' : querySession' = r
     /\ (EnqueueAccepted /\ isSessionActive(Cur))
          => /\ Len(messages') = Len(messages) + 1
             /\ Last(messages').role = "user"
             /\ SubSeq(messages', 1, Len(messages)) = messages
             /\ runCounter' = runCounter
             /\ liveRuns' = liveRuns
             /\ pendingStarts' = pendingStarts]_vars

\* C1 witness: two starts were scheduled back to back after a run had ended;
\* the first created the run and the second has just returned at the guard
C1_Witness ==
  /\ lastCall = Call("startStreamingSession", "returned")
  /\ Cardinality(liveRuns) = 1
  /\ runCounter = 2

\* a message pushed onto the feed that the feed has not yet shifted
MessageNotPickedUp == messageQueue # <<>>

\* C2 as stated: the state is running exactly when a runtime handle is live or
\* an enqueued message has not yet been picked up by the feed, and the handle
\* is null whenever the state is idle.
C2_RunningIffLive ==
  /\ (sessionState = "running") <=> (querySession # Null \/ MessageNotPickedUp)
  /\ (sessionState = "idle") => (querySession = Null)

\* C2 amended: whenever the state is running, a runtime handle is live or an
\* enqueued message has not yet been picked up by the feed; and the handle is
\* null whenever the state is error.
C2_RunningImpliesLive ==
  /\ (sessionState = "running") => (querySession # Null \/ MessageNotPickedUp)
  /\ (sessionState = "error") => (querySession = Null)

\* C2 witness: the state is running on the strength of a just-enqueued message
\* alone: the run that failed has released its handle and the start of the
\* next one is still suspended
C2_Witness ==
  /\ sessionState = "running"
  /\ querySession = Null
  /\ MessageNotPickedUp
  /\ pendingStarts # <<>>
  /\ \E i \in 1..Len(bcast) : bcast[i].event = "chat:message-error"

\* the frames broadcast by the segment that has just run
NewBroadcasts == SubSeq(bcast', Len(bcast) + 1, Len(bcast'))

\* the frames written to viewer v's channel by the segment that has just run
NewFrames(v) == SubSeq(chan'[v], Len(chan[v]) + 1, Len(chan'[v]))

StatusFrame(state) == [Frame("chat:status") EXCEPT !.sessionState = state]
ReplayFrame(m) == [Frame("chat:message-replay") EXCEPT !.message = m]

\* what an enqueue of `text` must have done, given the user message it made
EnqueueEffect(text, userMessage) ==
  /\ userMessage = MessageWire(messageSequence, "user", StringContent(trim(text)))
  /\ messages' = Append(messages, userMessage)
  /\ SubSeq(bcast', 1, Len(bcast)) = bcast
  /\ NewBroadcasts = (IF sessionState = "running" THEN <<>>
                      ELSE <<StatusFrame("running")>>) \o <<ReplayFrame(userMessage)>>
  /\ \A v \in clients : /\ SubSeq(chan'[v], 1, Len(chan[v])) = chan[v]
                        /\ NewFrames(v) = NewBroadcasts
  /\ Len(messageQueue') = Len(messageQueue) + 1
  /\ SubSeq(messageQueue', 1, Len(messageQueue)) = messageQueue
  /\ Last(messageQueue').text = trim(text)
  /\ sessionState' = "running"

\* C3: every enqueueUserMessage call with a text that is not blank appends
\* exactly one user message holding the trimmed text, broadcasts exactly one
\* message-replay carrying that message in the same segment (ahead of any
\* event of the response, whether or not a run exists), pushes the message
\* onto the feed and leaves the state running.
C3_EnqueueAppendsAndReplays ==
  [][\A text \in TextInputs :
       (Enqueue(text) /\ trim(text) # <<>>)
         => EnqueueEffect(text, Last(messages'))]_vars

\* C3 witness: an enqueue has just been accepted with no run to answer it (the
\* start is suspended), and the connected viewer has been handed the replay
C3_Witness ==
  /\ lastCall = Call("enqueueUserMessage", "pending")
  /\ querySession = Null
  /\ pendingStarts # <<>>
  /\ \E v \in clients : Last(chan[v]) = ReplayFrame(Last(messages))

\* the concatenation of the texts of a sequence of records with a text field
RECURSIVE ConcatTexts(_)
ConcatTexts(q) ==
  IF q = <<>> THEN <<>> ELSE Head(q).text \o ConcatTexts(Tail(q))

IsTextBlock(b) == b.type = "text"

\* the text a message renders: its string content, or the concatenation of
\* its text blocks
RenderedText(m) ==
  IF m.content.isString THEN m.content.text
  ELSE ConcatTexts(SelectSeq(m.content.blocks, IsTextBlock))

IsSemantic(frame) ==
  frame.event \notin {"chat:init", "chat:logs", "chat:status", "chat:log"}

\* the transcript events among frames: all but lifecycle and log frames
Semantic(frames) == SelectSeq(frames, IsSemantic)

IsUserMessage(m) == m.role = "user"

ChunkFrame(text) == [Frame("chat:message-chunk") EXCEPT !.text = text]

\* the runtime frames consumed so far are text deltas, at least one, followed
\* by the result frame; they answer the only enqueue made, which found the
\* session idle; nothing was interrupted and no run has ended
TextScenarioDone ==
  /\ Len(SelectSeq(messages, IsUserMessage)) = 1
  /\ runCounter = 1
  /\ liveRuns = {1}
  /\ \A r \in RunIds : interruptsAsked[r] = 0
  /\ Len(logLines) >= 2
  /\ Last(logLines).type = "result"
  /\ \A i \in 1..(Len(logLines) - 1) : logLines[i].type = "text_delta"

ScenarioDeltas == SubSeq(logLines, 1, Len(logLines) - 1)

\* C4: after one enqueue made while idle, answered by text deltas and then the
\* result frame, the broadcasts are the replay of the user message, one chunk
\* per delta in order, then message-complete, and a viewer connected from the
\* start has received them; the transcript has exactly two messages, user
\* then assistant, the assistant text is the concatenation of the chunks, and
\* the state is idle.
C4_TextScenario ==
  TextScenarioDone =>
    /\ Len(messages) = 2
    /\ messages[1].role = "user"
    /\ messages[2].role = "assistant"
    /\ RenderedText(messages[2]) = ConcatTexts(ScenarioDeltas)
    /\ sessionState = "idle"
    /\ Semantic(bcast) =
         <<ReplayFrame(messages[1])>>
           \o [i \in 1..Len(ScenarioDeltas) |-> ChunkFrame(ScenarioDeltas[i].text)]
           \o <<Frame("chat:message-complete")>>
    /\ \A v \in clients : snapshot[v].at = 0 => Semantic(chan[v]) = Semantic(bcast)

\* C4 witness: the scenario has run with two different deltas before a viewer
\* that was connected from the start
C4_Witness ==
  /\ TextScenarioDone
  /\ Len(logLines) = 3
  /\ logLines[1].text # logLines[2].text
  /\ \E v \in clients : snapshot[v].at = 0

\* an assistant message is open: the next delta will extend it
AssistantMessageOpen ==
  /\ isStreamingMessage
  /\ Len(messages) > 0
  /\ Last(messages).role = "assistant"

\* C5: whatever text deltas without a parent tool id have arrived, and
\* whatever thinking frames between them, the rendered text of the open
\* assistant message (its string content, or the concatenation of its text
\* blocks) is the concatenation of the deltas it received, in arrival order.
C5_RenderedTextIsConcat ==
  AssistantMessageOpen => RenderedText(Last(messages)) = openDeltas

\* C5 witness: the open message holds two text blocks around a thinking block,
\* made from two different deltas
C5_Witness ==
  /\ AssistantMessageOpen
  /\ ~Last(messages).content.isString
  /\ Len(SelectSeq(Last(messages).content.blocks, IsTextBlock)) = 2
  /\ Len(openDeltas) = 2
  /\ openDeltas[1] # openDeltas[2]

\* what viewer v must have received first: the init frame of the session as
\* it was at the connect, then the replay of the transcript as it was
ConnectPreamble(v) ==
  <<[Frame("chat:init") EXCEPT !.agentDir = agentDir,
                               !.sessionState = snapshot[v].sessionState,
                               !.hasInitialPrompt = snapshot[v].hasInitialPrompt]>>
    \o [i \in 1..Len(snapshot[v].messages) |-> ReplayFrame(snapshot[v].messages[i])]

\* every frame broadcast since viewer v connected
LiveSince(v) == SubSeq(bcast, snapshot[v].at + 1, Len(bcast))

IsPrefix(p, q) == Len(p) <= Len(q) /\ SubSeq(q, 1, Len(p)) = p

\* C6: the channel of a viewer that has connected carries one init frame with
\* the workspace, state and seed flag of that moment, then one message-replay
\* per message of the transcript of that moment in transcript order (then the
\* snapshot of the log), then every frame broadcast since, in broadcast order,
\* and nothing else; a viewer that has left received a prefix of this that
\* holds the whole preamble.
C6_ConnectOrder ==
  \A v \in connected :
    LET n == Len(ConnectPreamble(v))
    IN /\ Len(chan[v]) > n
       /\ SubSeq(chan[v], 1, n) = ConnectPreamble(v)
       /\ chan[v][n + 1].event = "chat:logs"
       /\ IsPrefix(SubSeq(chan[v], n + 2, Len(chan[v])), LiveSince(v))
       /\ v \in clients => SubSeq(chan[v], n + 2, Len(chan[v])) = LiveSince(v)

\* C6 witness: a viewer connected while an answer was streaming, was replayed
\* the user message and the partial answer, and has since received a chunk
C6_Witness ==
  \E v \in clients :
    /\ Len(snapshot[v].messages) = 2
    /\ snapshot[v].sessionState = "running"
    /\ Last(chan[v]).event = "chat:message-chunk"
    /\ LiveSince(v) # <<>>

\* C7 as stated, in the terms of the session alone: every change made to the
\* transcript by a segment has a corresponding broadcast in that segment, so
\* that a viewer applying the deltas holds what the replay would give it.
C7_TranscriptChangeIsBroadcast ==
  [][messages' # messages => Semantic(NewBroadcasts) # <<>>]_vars

IsMessageError(frame) == frame.event = "chat:message-error"

\* what the failure of run r with the value `thrown` must have done
FailureEffect(r, thrown) ==
  LET errorText == IF thrown.isError THEN thrown.message
                   ELSE <<"Unknown error occurred">>
  IN /\ messages' = Append(messages,
                           MessageWire(messageSequence, "assistant",
                                       StringContent(<<"Error: ">> \o errorText)))
     /\ SelectSeq(NewBroadcasts, IsMessageError) =
          <<[Frame("chat:message-error") EXCEPT !.text = errorText]>>
     /\ querySession' = Null
     /\ ~isProcessing'
     /\ r \notin liveRuns'
     /\ r \in terminated'
     /\ sessionState' = "error"

\* C8: when the event stream of a run raises, the segment that catches it
\* appends exactly one new assistant message holding the formatted error text
\* and leaves every earlier message as it was, broadcasts message-error once,
\* releases the runtime handle and ends in state error.
C8_RuntimeFailure ==
  [][\A r \in RunIds, thrown \in Thrown :
       RuntimeRaises(r, thrown) => FailureEffect(r, thrown)]_vars

\* C8 witness: the stream raised while an answer was open; the partial answer
\* is still there, followed by the error message
C8_Witness ==
  /\ lastCall = Call("sdkMessage", "raised")
  /\ sessionState = "error"
  /\ Len(messages) = 3
  /\ messages[2].role = "assistant"
  /\ messages[2].content.text = <<"x">>
  /\ messages[3].content.text = <<"Error: ", "E">>

\* a run has just been created: a new handle, held by the session, its loop
\* live, the state running
RunStarted ==
  /\ runCounter' = runCounter + 1
  /\ querySession' = runCounter'
  /\ liveRuns' = {runCounter'}
  /\ isProcessing'
  /\ sessionState' = "running"

\* a start has just been suspended on a termination promise that is already
\* resolved, so that nothing but the scheduler delays it
StartScheduled ==
  /\ sessionTerminationPromise \in terminated
  /\ pendingStarts' = Append(pendingStarts, sessionTerminationPromise)

\* C9: the error state is not sticky: an enqueue of a text that is not blank
\* made in state error announces running and the user message, ends in state
\* running and starts a run, at once or as soon as the scheduler resumes the
\* start, as an enqueue made in state idle after a run had ended does; and the
\* start, once resumed with no run live, creates the new run.
C9_ErrorNotSticky ==
  [][/\ \A text \in TextInputs :
          (sessionState = "error" /\ Enqueue(text) /\ trim(text) # <<>>)
            => /\ sessionState' = "running"
               /\ NewBroadcasts = <<StatusFrame("running"),
                                     ReplayFrame(Last(messages'))>>
               /\ RunStarted \/ StartScheduled
     /\ (ResumeStart /\ ~isSessionActive(Cur)) => RunStarted]_vars

\* C9 witness: after the first run failed an enqueue was made, and the second
\* run is live with the state running
C9_Witness ==
  /\ \E i \in 1..Len(bcast) : bcast[i].event = "chat:message-error"
  /\ lastCall = Call("startStreamingSession", "started")
  /\ runCounter = 2
  /\ liveRuns = {2}
  /\ sessionState = "running"

\* C10: interruptCurrentResponse called while no runtime handle is live
\* returns false and is a no-op: nothing is broadcast or written to a
\* viewer, and the state, the transcript, the feed and every other field of
\* the session are as they were.
C10_InterruptWithoutRun ==
  [][(Interrupt /\ querySession = Null)
       => /\ lastCall' = Call("interruptCurrentResponse", "false")
          /\ bcast' = bcast
          /\ chan' = chan
          /\ sessionState' = sessionState
          /\ messages' = messages
          /\ messageQueue' = messageQueue
          /\ Cur' = Cur]_vars

\* C10 witness: an interrupt has just been refused after the run had failed,
\* with an enqueued message still on the feed and the state error
C10_Witness ==
  /\ lastCall = Call("interruptCurrentResponse", "false")
  /\ querySession = Null
  /\ sessionState = "error"
  /\ messageQueue # <<>>
  /\ messages # <<>>

\* the interrupt() requests all runtimes have received
RECURSIVE SumUpTo(_, _)
SumUpTo(f, n) == IF n = 0 THEN 0 ELSE f[n] + SumUpTo(f, n - 1)

InterruptsAsked == SumUpTo(interruptsAsked, MaxRequests + 1)

IsMessageStopped(frame) == frame.event = "chat:message-stopped"

\* the message-stopped frames among frames
Stops(frames) == Len(SelectSeq(frames, IsMessageStopped))

\* a call made while an interrupt is in flight does nothing
OverlappingCallIdle ==
  /\ Cur' = Cur
  /\ bcast' = bcast
  /\ InterruptsAsked' = InterruptsAsked

\* C11 as stated: while one interrupt is in flight, every further
\* interruptCurrentResponse call returns success without acting.
C11_OverlapReturnsSuccess ==
  [][(Interrupt /\ isInterruptingResponse)
       => /\ lastCall' = Call("interruptCurrentResponse", "true")
          /\ OverlappingCallIdle]_vars

\* C11 amended: while one interrupt is in flight, every further
\* interruptCurrentResponse call does nothing, and returns success when a
\* runtime handle is live and failure when the run has ended meanwhile; the
\* call that is in flight asked the runtime once, and message-stopped is
\* broadcast once, by the segment in which that request resolves, and by no
\* other.
C11_OverlapDoesNotAct ==
  [][/\ (Interrupt /\ isInterruptingResponse)
          => /\ lastCall' = Call("interruptCurrentResponse",
                                 IF querySession # Null THEN "true" ELSE "false")
             /\ OverlappingCallIdle
     /\ (Interrupt /\ ~isInterruptingResponse /\ querySession # Null)
          => /\ InterruptsAsked' = InterruptsAsked + 1
             /\ isInterruptingResponse'
             /\ Stops(NewBroadcasts) = 0
     /\ Stops(NewBroadcasts) = (IF InterruptSettles THEN 1 ELSE 0)
     /\ InterruptSettles => isInterruptingResponse /\ ~isInterruptingResponse'
     /\ ~Interrupt => InterruptsAsked' = InterruptsAsked]_vars

\* C11 witness: a second call has just returned success while the first is
\* still in flight; the runtime has been asked once and nothing was stopped
C11_Witness ==
  /\ lastCall = Call("interruptCurrentResponse", "true")
  /\ isInterruptingResponse
  /\ interruptTarget # Null
  /\ InterruptsAsked = 1
  /\ Stops(bcast) = 0

\* ---- C12
IsOpenThinking(b) == b.type = "thinking" /\ ~b.isComplete

ClosedWithDuration(b) ==
  /\ b.isComplete
  /\ b.thinkingDurationMs # <<>>
  /\ b.thinkingDurationMs[1] >= 0

\* C12: when an interruption takes effect, every thinking block that was open
\* in an assistant message is complete afterwards and carries a duration that
\* is not negative, whatever enqueues and runtime events came before.
C12_InterruptClosesThinking ==
  [][InterruptSettles =>
       \A i \in 1..Len(messages) :
         (messages[i].role = "assistant" /\ ~messages[i].content.isString) =>
           \A k \in 1..Len(messages[i].content.blocks) :
             IsOpenThinking(messages[i].content.blocks[k]) =>
               ClosedWithDuration(messages'[i].content.blocks[k])]_vars

\* the same when the assistant message is the newest message of the transcript
C12_ClosesThinkingOfNewestMessage ==
  [][(/\ InterruptSettles
      /\ messages # <<>>
      /\ Last(messages).role = "assistant"
      /\ ~Last(messages).content.isString) =>
       \A k \in 1..Len(Last(messages).content.blocks) :
         IsOpenThinking(Last(messages).content.blocks[k]) =>
           ClosedWithDuration(Last(messages').content.blocks[k])]_vars

\* ---- C13
\* position in the broadcasts of the first message-stopped event
StopAt == CHOOSE p \in 1..Len(bcast) : IsMessageStopped(bcast[p])

IsIdleStatus(frame) == frame = StatusFrame("idle")

\* one enqueue was made and one interruption has taken effect, and before
\* message-stopped was broadcast the run had neither completed a response,
\* nor failed, nor ended
InterruptedOnce ==
  /\ Len(SelectSeq(messages, IsUserMessage)) = 1
  /\ runCounter = 1
  /\ Stops(bcast) = 1
  /\ \A i \in 1..(StopAt - 1) :
       /\ bcast[i].event \notin {"chat:message-complete", "chat:message-error"}
       /\ ~IsIdleStatus(bcast[i])

\* C13: one enqueue, then an interruption that takes effect before the run
\* completes a response: message-stopped is followed at once by status idle,
\* no other idle status follows it (whatever result frame or teardown comes
\* later), and the step that broadcasts message-stopped leaves no message
\* streaming and no thinking block of the newest message open.
C13_IdleOnceAfterStop ==
  [][/\ InterruptedOnce' =>
          /\ StopAt' < Len(bcast')
          /\ IsIdleStatus(bcast'[StopAt' + 1])
          /\ Len(SelectSeq(SubSeq(bcast', StopAt' + 1, Len(bcast')), IsIdleStatus)) = 1
     /\ (InterruptSettles /\ InterruptedOnce') =>
          /\ ~isStreamingMessage'
          /\ sessionState' = "idle"
          /\ Last(messages').role = "assistant" /\ ~Last(messages').content.isString =>
               \A k \in 1..Len(Last(messages').content.blocks) :
                 ~IsOpenThinking(Last(messages').content.blocks[k])]_vars

\* C13 witness: the interruption took effect while a thinking block of the
\* assistant message was open, then the result frame came and the run ended
C13_Witness ==
  /\ InterruptedOnce
  /\ 1 \in terminated
  /\ Len(messages) = 2
  /\ ~messages[2].content.isString
  /\ Len(logLines) = 2
  /\ logLines[1].type = "thinking_start"
  /\ logLines[2].type = "result"
  /\ sessionState = "idle"

\* ---- C14
IsBlank(text) == \A i \in 1..Len(text) : text[i] = " "

\* C14: an enqueue whose text is empty or made of whitespace only returns at
\* once and leaves the session as it was: transcript, feed queue,
\* sessionState, hasInitialPrompt and message sequence unchanged, nothing
\* broadcast or sent to a viewer, no run started and no start scheduled.
C14_BlankEnqueueIsIdle ==
  [][\A text \in TextInputs :
       (Enqueue(text) /\ IsBlank(text)) =>
         /\ lastCall' = Call("enqueueUserMessage", "returned")
         /\ messages' = messages
         /\ messageQueue' = messageQueue
         /\ sessionState' = sessionState
         /\ hasInitialPrompt' = hasInitialPrompt
         /\ messageSequence' = messageSequence
         /\ bcast' = bcast
         /\ chan' = chan
         /\ runCounter' = runCounter
         /\ pendingStarts' = pendingStarts
         /\ Cur' = Cur]_vars

\* C14 witness: a whitespace-only enqueue has just returned in a session that
\* never had a message, with a viewer connected
C14_Witness ==
  /\ lastCall = Call("enqueueUserMessage", "returned")
  /\ messages = <<>>
  /\ ~hasInitialPrompt
  /\ sessionState = "idle"
  /\ runCounter = 0
  /\ clients # {}

\* ---- C15
\* the queue item each accepted enqueue made, in the order of acceptance
Accepted ==
  LET users == SelectSeq(messages, IsUserMessage)
  IN [i \in 1..Len(users) |-> QueueItem(users[i].content.text, users[i].id + 1)]

\* C15: the items the feeds have yielded, over all runs, are in order the
\* first accepted enqueues, and the accepted enqueues not yet yielded are the
\* queue, in order: none is skipped, repeated or reordered.
C15_FeedIsFifo ==
  /\ IsPrefix(fed, Accepted)
  /\ fed \o messageQueue = Accepted

\* C15 witness: two runs have each been fed, the second after the first ended
C15_Witness ==
  /\ Len(fed) = 2
  /\ fed[1] # fed[2]
  /\ 1 \in terminated
  /\ yielded[2] = fed[2].resolve

\* ---- C16
Promises(items) == {items[i].resolve : i \in 1..Len(items)}

\* C16: a resolved enqueue promise belongs to an item a feed has yielded and
\* that is no longer in the queue; a promise is resolved only by the feed that
\* yielded its item, when it is resumed, and was not resolved before.
C16_ResolvedAfterConsumed ==
  [][/\ resolved' \subseteq Promises(fed')
     /\ resolved' \cap Promises(messageQueue') = {}
     /\ resolved \subseteq resolved'
     /\ \A r \in RunIds :
          FeedResume(r) => /\ yielded[r] \notin resolved
                           /\ resolved' = resolved \cup {yielded[r]}
     /\ (~ \E r \in RunIds : FeedResume(r)) => resolved' = resolved]_vars

\* C16 witness: one promise is resolved while a later item waits in the queue
C16_Witness ==
  /\ Cardinality(resolved) = 1
  /\ messageQueue # <<>>
  /\ \A p \in resolved : p < Head(messageQueue).resolve

\* ---- C17
\* every run created so far has released its handle and signalled its end
AllReleased ==
  /\ querySession = Null
  /\ ~isProcessing
  /\ liveRuns = {}
  /\ \A r \in 1..runCounter : r \in terminated

\* C17: a step that creates a run starts from a session whose earlier runs
\* have all cleared the handle and the processing flag and signalled their
\* termination; a start requested after a run existed creates nothing in the
\* requesting step but waits on that run's termination promise, and proceeds
\* only when the promise at the head of the waiting starts is resolved.
C17_StartAfterRelease ==
  [][/\ runCounter' # runCounter =>
          /\ runCounter' = runCounter + 1
          /\ AllReleased
     /\ \A text \in TextInputs :
          (Enqueue(text) /\ ~IsBlank(text) /\ ~isSessionActive(Cur)
             /\ sessionTerminationPromise # Null) =>
            /\ runCounter' = runCounter
            /\ pendingStarts' = Append(pendingStarts, sessionTerminationPromise)
     /\ pendingStarts' # pendingStarts /\ Len(pendingStarts') <= Len(pendingStarts) =>
          /\ pendingStarts' = Tail(pendingStarts)
          /\ Head(pendingStarts) \in terminated]_vars

\* C17 witness: a second run has just been created by a start that waited for
\* the first run's termination
C17_Witness ==
  /\ lastCall = Call("startStreamingSession", "started")
  /\ runCounter = 2
  /\ 1 \in terminated
  /\ querySession = 2
  /\ liveRuns = {2}

\* ---- C18
\* the channels open in the hub whose next write will throw
Broken == clients \cap failing

\* the state a segment must leave when the hub held broken channels, given
\* the state `ideal` it leaves when every write succeeds: the same but for the
\* broken channels, which are out of the hub and received nothing
WithoutBroken(ideal) ==
  [ideal EXCEPT !.failing = failing,
                !.clients = ideal.clients \ failing,
                !.chan = [v \in Viewers |->
                            IF v \in Broken THEN chan[v] ELSE ideal.chan[v]]]

\* C18: when the event loop consumes a runtime frame while a viewer channel
\* rejects writes, the broadcast removes that channel from the hub and has no
\* other effect: the step ends in the state it would have reached with every
\* channel healthy (same transcript, same run still live, no error raised),
\* and every other open channel receives every frame broadcast.
C18_WriteFailureIsLocal ==
  [][\A r \in RunIds, m \in TextFrames :
       (RuntimeEvent(r, m) /\ Broken # {}) =>
         /\ Cur' = WithoutBroken(consumeSdkMessage([Cur EXCEPT !.failing = {}], r, m))
         /\ NewBroadcasts # <<>>
         /\ SelectSeq(NewBroadcasts, IsMessageError) = <<>>
         /\ r \in liveRuns'
         /\ clients' = clients \ failing
         /\ \A v \in clients \ failing : NewFrames(v) = NewBroadcasts
         /\ \A v \in Broken : NewFrames(v) = <<>>]_vars

\* C18 witness: of two connected viewers the one whose stream broke is out of
\* the hub and the other has received the chunk just broadcast
C18_Witness ==
  /\ lastCall = Call("sdkMessage", "text_delta")
  /\ Len(messages) = 2
  /\ \E v \in Viewers, w \in Viewers :
       /\ v \in failing /\ v \in connected /\ v \notin clients
       /\ w \in clients /\ w \notin failing
       /\ Last(chan[w]) = Last(bcast)
       /\ Last(chan[w]).event = "chat:message-chunk"
       /\ Last(chan[v]) # Last(bcast)

\* ---- C19
\* the frames that carry a tool result, and the tool id each names
ToolResultEvents ==
  {m \in ResultFrames : m.type \in {"tool_result_start", "text_delta", "user_tool_result"}}

NamedTool(m) == IF m.type = "text_delta" THEN m.parent_tool_use_id ELSE m.id

\* the result the transcript records for a tool id, <<>> when it records none
RecordedResult(s, toolUseId) ==
  IF subagentToolResultFound(s, toolUseId)
  THEN <<getSubagentToolResult(s, toolUseId)>>
  ELSE getToolResult(s, toolUseId)

\* no tool_use block and no subagent call carries this id
NeverStarted(s, toolUseId) ==
  /\ findToolBlockById(s, toolUseId) = NoPlace
  /\ ~subagentToolResultFound(s, toolUseId)

\* C19: a tool-result start, delta or complete frame that names a tool id
\* with no entry in the transcript is not dropped: after the frame the
\* transcript has an entry for that id and its recorded result ends with the
\* content of the frame.
C19_ResultNeverDropped ==
  [][\A r \in RunIds, m \in ToolResultEvents :
       (RuntimeEvent(r, m) /\ NeverStarted(Cur, NamedTool(m))) =>
         /\ ~NeverStarted(Cur', NamedTool(m))
         /\ RecordedResult(Cur', NamedTool(m)) = <<m.text>>]_vars

\* what the code does: the result is kept when the frame is a start or a
\* complete frame of a subagent's tool whose parent block is in the
\* transcript (a placeholder call "Tool" is made under the parent), and is
\* dropped otherwise
C19_PlaceholderUnderKnownParent ==
  [][\A r \in RunIds, m \in ToolResultEvents :
       (RuntimeEvent(r, m) /\ NeverStarted(Cur, NamedTool(m))) =>
         IF /\ m.type # "text_delta"
            /\ m.parent_tool_use_id # ""
            /\ findToolBlockById(Cur, m.parent_tool_use_id) # NoPlace
         THEN /\ RecordedResult(Cur', m.id) = <<m.text>>
              /\ childToolToParent'[m.id] = m.parent_tool_use_id
         ELSE /\ NeverStarted(Cur', NamedTool(m))
              /\ messages' = messages]_vars

\* ---- C20
IsStatus(frame) == frame.event = "chat:status"

IsStatusOrInit(frame) == frame.event \in {"chat:status", "chat:init"}

\* the status events broadcast so far, in order
Statuses == SelectSeq(bcast, IsStatus)

\* C20: the status events broadcast so far never repeat a state twice in a
\* row, the first one leaves the initial state idle, and the newest one
\* carries the current sessionState (idle while there is none); a step that
\* changes sessionState broadcasts a status event, a step that broadcasts
\* none leaves it unchanged, and the newest status or init event on an open
\* viewer channel carries the current sessionState.
C20_StatusTracksState ==
  [][/\ \A i \in 1..(Len(Statuses') - 1) :
          Statuses'[i].sessionState # Statuses'[i + 1].sessionState
     /\ Statuses' # <<>> => Statuses'[1].sessionState # "idle"
     /\ sessionState' = IF Statuses' = <<>> THEN "idle"
                        ELSE Last(Statuses').sessionState
     /\ sessionState' # sessionState =>
          /\ SelectSeq(NewBroadcasts, IsStatus) # <<>>
          /\ Last(SelectSeq(NewBroadcasts, IsStatus)) = StatusFrame(sessionState')
     /\ SelectSeq(NewBroadcasts, IsStatus) = <<>> => sessionState' = sessionState
     /\ \A v \in clients' :
          /\ SelectSeq(chan'[v], IsStatusOrInit) # <<>>
          /\ Last(SelectSeq(chan'[v], IsStatusOrInit)).sessionState = sessionState']_vars

\* C20 witness: a run failed, so that idle and then error were announced in
\* one step, and a later enqueue announced running, before a viewer that had
\* connected while the first run was live
C20_Witness ==
  /\ Len(Statuses) = 4
  /\ Statuses[2].sessionState = "idle"
  /\ Statuses[3].sessionState = "error"
  /\ Statuses[4].sessionState = "running"
  /\ sessionState = "running"
  /\ \E v \in clients : Len(SelectSeq(chan[v], IsStatus)) = 3

\* ---- C21
\* C21: the ids of the transcript are pairwise distinct and strictly
\* increasing in transcript order, below the sequence counter; no step
\* removes a message or changes the id of one, and the counter never goes
\* back, whatever enqueues, assistant messages, error messages and run
\* restarts have happened.
C21_IdsFromOneCounter ==
  [][/\ \A i \in 1..Len(messages'), j \in 1..Len(messages') :
          i < j => messages'[i].id < messages'[j].id
     /\ \A i \in 1..Len(messages') : messages'[i].id < messageSequence'
     /\ Len(messages') >= Len(messages)
     /\ \A i \in 1..Len(messages) : messages'[i].id = messages[i].id
     /\ messageSequence' >= messageSequence]_vars

\* C21 witness: a user message, the assistant message that answered it, the
\* error message of the run's failure and the user message that restarted a
\* run
C21_Witness ==
  /\ Len(messages) = 4
  /\ messages[1].role = "user"
  /\ messages[2].role = "assistant"
  /\ messages[3].role = "assistant"
  /\ messages[3].content = StringContent(formatError(<<"E">>))
  /\ messages[4].role = "user"
  /\ runCounter = 2

\* ---- C22
\* C22: once the session has learned the parent of a child tool id, no step
\* changes it.
C22_ParentNeverChanges ==
  [][\A id \in ToolIds :
       childToolToParent[id] # "" => childToolToParent'[id] = childToolToParent[id]]_vars

\* ---- C23
\* the places of the tool_use blocks of a transcript
ToolPlaces(msgs) ==
  {at \in (1..Len(msgs)) \X (1..4) :
     /\ ~msgs[at[1]].content.isString
     /\ at[2] <= Len(msgs[at[1]].content.blocks)
     /\ msgs[at[1]].content.blocks[at[2]].type = "tool_use"}

ToolAt(msgs, at) == msgs[at[1]].content.blocks[at[2]].tool

\* the step consumed the result frame m, which names tool id toolUseId
ConsumedResultFor(m, toolUseId) ==
  /\ \E r \in RunIds : RuntimeEvent(r, m)
  /\ m.type \in {"tool_result_start", "text_delta", "assistant"}
  /\ toolUseId = (IF m.type = "tool_result_start" THEN m.id ELSE m.parent_tool_use_id)

\* C23: a tool_use block keeps its place; its result and isError change only
\* in a step that consumes a tool-result frame naming its id; a result delta
\* leaves the previous result followed by the delta, a result start leaves
\* exactly the frame's content, a result-complete event leaves exactly the
\* content the event carries; and a result that is set is never unset.
C23_ResultGrowsOrIsReplaced ==
  [][\A at \in ToolPlaces(messages) :
       LET old == ToolAt(messages, at)
           new == ToolAt(messages', at)
       IN /\ at \in ToolPlaces(messages')
          /\ new.id = old.id
          /\ old.result # <<>> => new.result # <<>>
          /\ (new.result # old.result \/ new.isError # old.isError) =>
               \E m \in TopResultFrames :
                 /\ ConsumedResultFor(m, old.id)
                 /\ m.type = "text_delta" =>
                      /\ new.result = appendResult(old.result, m.text)
                      /\ new.isError = old.isError
                 /\ m.type = "tool_result_start" =>
                      /\ new.result = <<m.text>>
                      /\ new.isError = <<FALSE>>
                 /\ m.type = "assistant" =>
                      /\ Last(bcast').event = "chat:tool-result-complete"
                      /\ Last(bcast').toolId = old.id
                      /\ new.result = <<Last(bcast').text>>
                      /\ new.isError = old.isError]_vars

\* C23 witness: the result of T was started with r and a delta x followed
C23_Witness ==
  /\ lastCall = Call("sdkMessage", "text_delta")
  /\ \E at \in ToolPlaces(messages) :
       /\ ToolAt(messages, at).id = "T"
       /\ ToolAt(messages, at).result = <<(<<"r", "x">>)>>
       /\ ToolAt(messages, at).isError = <<FALSE>>

\* ---- C24
FileRoutes == {"/agent/download", "/agent/file", "/agent/upload"}

\* the path is the directory or lies below it
IsWithin(dir, path) == path = dir \/ startsWith(path, dir \o <<"/">>)

\* C24: every path a file route goes to on the disk is the agent directory or
\* a descendant of it.
C24_ServedPathsAreConfined ==
  (lastCall.op \in FileRoutes /\ lastCall.result.path # <<>>)
    => IsWithin(resolvedAgentDir, lastCall.result.path[1])

\* ---- C25
IsAssistantMessage(m) == m.role = "assistant"

\* the step opened a new assistant message: the transcript has one more, and
\* it is left open (the message an error adds is closed)
OpensAssistantMessage ==
  /\ Len(SelectSeq(messages', IsAssistantMessage)) > Len(SelectSeq(messages, IsAssistantMessage))
  /\ isStreamingMessage'

\* C25: a step opens a new assistant message only when no assistant message
\* is still open, that is when the one before it was closed by completion,
\* interruption or error; so the deltas of one response extend one message.
C25_OneOpenAssistantMessage ==
  [][OpensAssistantMessage => ~isStreamingMessage]_vars

\* ---- C26
\* C26: after the idle status that follows an interrupt, no frame of the
\* interrupted response is applied to the transcript: with one enqueue made
\* and its response interrupted, every frame the runtime emits afterwards
\* leaves the transcript as it was.
C26_NothingAppliedAfterIdle ==
  [][\A r \in RunIds, m \in TextFrames :
       (InterruptedOnce /\ RuntimeEvent(r, m)) => messages' = messages]_vars

\* ---- C27
\* C27: the abort flag is a latch: a call of interruptCurrentResponse that
\* acts on a live run leaves it true, it stays true in every step that starts
\* no run, and a step that starts a run leaves it false.
C27_AbortFlagIsLatch ==
  [][/\ (Interrupt /\ lastCall'.result = "pending") => shouldAbortSession'
     /\ (shouldAbortSession /\ runCounter' = runCounter) => shouldAbortSession'
     /\ runCounter' # runCounter => ~shouldAbortSession']_vars

\* ---- C28
\* the promises of the items waiting in a queue
Waiting(queue) == {queue[i].resolve : i \in 1..Len(queue)}

\* C28: a step that starts a run leaves in the queue no item that was in it
\* before the step, and the feed of the new run has yielded nothing yet.
C28_FeedDrainedAtStart ==
  [][RunStarted => /\ Waiting(messageQueue') \cap Waiting(messageQueue) = {}
                   /\ yielded'[runCounter'] = Null]_vars

\* ---- C29
\* the open assistant message holds an open thinking block of stream index
OpenThinkingAt(index) ==
  /\ AssistantMessageOpen
  /\ ~Last(messages).content.isString
  /\ findOpenThinking(Last(messages).content.blocks, index) # 0

\* C29: a block-stop frame for a stream index whose thinking block is closed
\* or absent leaves the transcript as it was, whether an assistant message is
\* open or not.
C29_StopOfClosedIndexIsNoOp ==
  [][\A r \in RunIds, m \in ThinkingFrames :
       (RuntimeEvent(r, m) /\ m.type = "content_block_stop" /\ ~OpenThinkingAt(m.index))
         => messages' = messages]_vars

\* ---- C30
IsClosedThinking(b) == b.type = "thinking" /\ b.isComplete

\* C30: a thinking block that is complete stays where it is and as it is in
\* every step: no thinking delta, block-stop, interrupt, or thinking start of
\* the same stream index reopens it or changes its text or its duration.
C30_ClosedThinkingIsFinal ==
  [][\A i \in 1..Len(messages) :
       ~messages[i].content.isString =>
         \A k \in 1..Len(messages[i].content.blocks) :
           IsClosedThinking(messages[i].content.blocks[k]) =>
             /\ Len(messages') >= i
             /\ ~messages'[i].content.isString
             /\ Len(messages'[i].content.blocks) >= k
             /\ messages'[i].content.blocks[k] = messages[i].content.blocks[k]]_vars

\* C30 witness: a thinking delta has arrived for the stream index of a block
\* that was closed before it received any text, and the block is still empty
C30_Witness ==
  /\ lastCall = Call("sdkMessage", "thinking_delta")
  /\ AssistantMessageOpen
  /\ ~Last(messages).content.isString
  /\ \E k \in 1..Len(Last(messages).content.blocks) :
       /\ IsClosedThinking(Last(messages).content.blocks[k])
       /\ Last(messages).content.blocks[k].thinkingStreamIndex = 0
       /\ Last(messages).content.blocks[k].text = <<>>
       /\ Last(messages).content.blocks[k].thinkingDurationMs # <<>>

\* ---- C31
StreamKey(m) == <<m.parent_tool_use_id, m.index>>

\* the tool that the frames of log opened last on the stream key, "" if none
RECURSIVE StreamOwner(_, _)
StreamOwner(log, key) ==
  IF log = <<>> THEN ""
  ELSE LET m == log[Len(log)]
       IN IF m.type = "tool_use_start" /\ StreamKey(m) = key THEN m.id
          ELSE StreamOwner(SubSeq(log, 1, Len(log) - 1), key)

\* the input fragments of log streamed for the tool toolId, in arrival order:
\* those of the frames whose stream had been opened last by that tool
RECURSIVE StreamedInput(_, _)
StreamedInput(log, toolId) ==
  IF log = <<>> THEN <<>>
  ELSE LET m == log[Len(log)]
           before == SubSeq(log, 1, Len(log) - 1)
       IN StreamedInput(before, toolId)
            \o (IF m.type = "input_json_delta" /\ StreamOwner(before, StreamKey(m)) = toolId
                THEN m.text ELSE <<>>)

\* the places of the subagent calls of a transcript
CallPlaces(msgs) ==
  {at \in ToolPlaces(msgs) \X (1..3) :
     at[2] <= Len(ToolAt(msgs, at[1]).subagentCalls)}

CallAt(msgs, at) == ToolAt(msgs, at[1]).subagentCalls[at[2]]

\* C31: the inputJson of every tool of the transcript, top-level or run by a
\* subagent, is the concatenation in arrival order of the input fragments
\* streamed for that tool.
C31_InputIsConcatOfFragments ==
  /\ \A at \in ToolPlaces(messages) :
       ToolAt(messages, at).inputJson = StreamedInput(logLines, ToolAt(messages, at).id)
  /\ \A at \in CallPlaces(messages) :
       CallAt(messages, at).inputJson = StreamedInput(logLines, CallAt(messages, at).id)

\* ---- C32
\* what a closing block leaves in parsedInput: the strict parse of a valid
\* inputJson, and else what parsedInput held
Reconciled(tool) ==
  IF JsonParse(tool.inputJson) # <<>> THEN JsonParse(tool.inputJson)
  ELSE tool.parsedInput

\* the step consumed frame m
Consumed(m) == \E r \in RunIds : RuntimeEventWithin(r, m, MaxToolEvents)

\* C32: a content_block_stop frame reconciles the tool that its stream opened
\* last: parsedInput becomes the strict parse of inputJson when inputJson is
\* valid JSON and stays what it was otherwise; and no input delta leaves
\* unset a parsedInput that was set.
C32_InputReconciledAtClose ==
  [][\A m \in InputFrames :
       /\ (Consumed(m) /\ m.type = "content_block_stop") =>
            /\ \A at \in ToolPlaces(messages) :
                 ToolAt(messages, at).id = StreamOwner(logLines, StreamKey(m)) =>
                   ToolAt(messages', at).parsedInput = Reconciled(ToolAt(messages, at))
            /\ \A at \in CallPlaces(messages) :
                 CallAt(messages, at).id = StreamOwner(logLines, StreamKey(m)) =>
                   CallAt(messages', at).parsedInput = Reconciled(CallAt(messages, at))
       /\ (Consumed(m) /\ m.type = "input_json_delta") =>
            /\ \A at \in ToolPlaces(messages) :
                 ToolAt(messages, at).parsedInput # <<>> =>
                   ToolAt(messages', at).parsedInput # <<>>
            /\ \A at \in CallPlaces(messages) :
                 CallAt(messages, at).parsedInput # <<>> =>
                   CallAt(messages', at).parsedInput # <<>>]_vars

\* ---- C39
\* the transcript holds a block or a subagent call of the tool
InTranscript(toolId) ==
  \/ \E at \in ToolPlaces(messages) : ToolAt(messages, at).id = toolId
  \/ \E at \in CallPlaces(messages) : CallAt(messages, at).id = toolId

\* C39: an input delta goes to the tool of its own stream: when the stream of
\* the frame was opened last by a tool that the transcript holds, a block or
\* call of that tool has the fragment appended to its inputJson, and the
\* inputJson of no other tool changes.
C39_InputDeltaGoesToItsStream ==
  [][\A m \in InputFrames :
       (/\ Consumed(m)
        /\ m.type = "input_json_delta"
        /\ InTranscript(StreamOwner(logLines, StreamKey(m)))) =>
         LET owner == StreamOwner(logLines, StreamKey(m))
         IN /\ \/ \E at \in ToolPlaces(messages) :
                    /\ ToolAt(messages, at).id = owner
                    /\ ToolAt(messages', at).inputJson =
                         ToolAt(messages, at).inputJson \o m.text
               \/ \E at \in CallPlaces(messages) :
                    /\ CallAt(messages, at).id = owner
                    /\ CallAt(messages', at).inputJson =
                         CallAt(messages, at).inputJson \o m.text
            /\ \A at \in ToolPlaces(messages) :
                 ToolAt(messages, at).id # owner =>
                   ToolAt(messages', at).inputJson = ToolAt(messages, at).inputJson
            /\ \A at \in CallPlaces(messages) :
                 CallAt(messages, at).id # owner =>
                   CallAt(messages', at).inputJson = CallAt(messages, at).inputJson]_vars

\* ---- C33
\* the promises an enqueue can make
PromiseIds == 1..(MaxRequests + MaxEvents + 1)

\* the item of promise p waits in the queue
Queued(p) == p \in Promises(messageQueue)

\* the feed of a live run has just yielded the item of promise p
YieldedToLiveRun(p) == \E r \in liveRuns : yielded[r] = p

\* C33: under a fair feed and a fair runtime, every message that waits in the
\* queue is eventually yielded to a live run, with no further enqueue.
C33_QueuedIsEventuallyYielded ==
  \A p \in PromiseIds : Queued(p) ~> YieldedToLiveRun(p)

\* ---- C34
\* C34: under a fair feed and a fair runtime, the promise of every enqueue
\* that was accepted, whether its item waits in the queue or has been taken
\* by a run, is eventually resolved.
C34_EnqueueEventuallyReturns ==
  \A p \in PromiseIds : (Queued(p) \/ YieldedToLiveRun(p)) ~> (p \in resolved)

\* the case of an item that a live run has taken
C34_TakenIsEventuallyResolved ==
  \A p \in PromiseIds : YieldedToLiveRun(p) ~> (p \in resolved)

\* ---- C35
\* C35: with no interrupt asked, a runtime frame changes the transcript only
\* in a step that starts in state running, whatever was enqueued while an
\* earlier response was in flight.
C35_AppliedOnlyWhileRunning ==
  [][\A r \in RunIds, m \in TextFrames :
       (RuntimeEvent(r, m) /\ InterruptsAsked = 0 /\ messages' # messages)
         => sessionState = "running"]_vars

\* ---- C36
\* C36: a step that broadcasts message-stopped starts in state running, and
\* an interruptCurrentResponse call made in state idle leads to no broadcast:
\* it does not act on the runtime.
C36_StoppedOnlyWhenRunning ==
  [][/\ Stops(bcast') > Stops(bcast) => sessionState = "running"
     /\ (Interrupt /\ sessionState = "idle") =>
          /\ bcast' = bcast
          /\ InterruptsAsked' = InterruptsAsked]_vars

\* ---- C37
IsResponseEnd(frame) ==
  frame.event \in {"chat:message-complete", "chat:message-stopped", "chat:message-error"}

\* the step announced the end of a response
ResponseEnds ==
  Len(SelectSeq(bcast', IsResponseEnd)) > Len(SelectSeq(bcast, IsResponseEnd))

\* C37: a step that ends a response, by completion, stop or error, leaves no
\* thinking block open in any message of the transcript.
C37_NoOpenThinkingAfterEnd ==
  [][ResponseEnds =>
       \A i \in 1..Len(messages') :
         ~messages'[i].content.isString =>
           \A k \in 1..Len(messages'[i].content.blocks) :
             ~IsOpenThinking(messages'[i].content.blocks[k])]_vars

\* ---- C38
\* C38: when the runtime's interrupt request rejects, the call ends with the
\* failure, broadcasts nothing, leaves sessionState and the transcript as they
\* were and clears the in-flight latch; the next interruptCurrentResponse call
\* made while a run is live asks the runtime again.
C38_RejectedInterruptLeavesNoTrace ==
  [][/\ InterruptRejects =>
          /\ lastCall' = Call("interrupt", "rejected")
          /\ bcast' = bcast
          /\ sessionState' = sessionState
          /\ isStreamingMessage' = isStreamingMessage
          /\ messages' = messages
          /\ ~isInterruptingResponse'
     /\ (Interrupt /\ lastCall = Call("interrupt", "rejected") /\ querySession # Null) =>
          /\ lastCall' = Call("interruptCurrentResponse", "pending")
          /\ isInterruptingResponse'
          /\ InterruptsAsked' = InterruptsAsked + 1]_vars

\* C38 witness: after a rejected interrupt, a second call has asked the
\* runtime again, and no stop was ever announced
C38_Witness ==
  /\ lastCall = Call("interruptCurrentResponse", "pending")
  /\ InterruptsAsked = 2
  /\ Stops(bcast) = 0
  /\ isInterruptingResponse

\* ---- C40
\* C40: in every step, each message of the transcript stays at its place with
\* its id and its role, and a user message keeps its content.
C40_TranscriptIsAppendOnly ==
  [][\A i \in 1..Len(messages) :
       /\ Len(messages') >= i
       /\ messages'[i].id = messages[i].id
       /\ messages'[i].role = messages[i].role
       /\ messages[i].role = "user" => messages'[i].content = messages[i].content]_vars

\* C40 witness: a user message, an assistant message made of blocks and a
\* second user message, in that order, after the response was stopped
C40_Witness ==
  /\ Len(messages) >= 3
  /\ messages[1].role = "user"
  /\ messages[2].role = "assistant"
  /\ ~messages[2].content.isString
  /\ messages[3].role = "user"
  /\ Stops(bcast) = 1

====
